------------------------------- MODULE Autosend -------------------------------
(***************************************************************************)
(* OutputMessagePool (outputmessage.cpp) with the output buffers of the    *)
(* protocols (Protocol::getOutputBuffer): protocols that are registered    *)
(* have what they buffered sent every 10 ms, by a task that schedules      *)
(* itself again as long as anybody is registered.                          *)
(*                                                                         *)
(* All of it is executed by the dispatcher, one task at a time.  The       *)
(* scheduler is a number of pending events, each of which becomes a task   *)
(* in the end (see TimerService and TaskExecutor).  A chain is a sendAll   *)
(* that is pending as an event or as a task.                               *)
(***************************************************************************)
EXTENDS Naturals, Sequences, SequencesExt

CONSTANTS
  Protocols,
  Capacity,   \* chunks that fit in a buffer
  MaxChunks,  \* bound on the chunks a protocol ever buffers
  MaxListed,  \* bound on the length of bufferedProtocols
  MaxChains   \* bound on the chains when one more is begun

ASSUME AutosendAssumption ==
  /\ {MaxChunks, MaxListed, MaxChains} \subseteq Nat
  /\ Capacity \in Nat \ {0}

VARIABLES
  bufferedProtocols,
  outputBuffer,  \* outputBuffer[p]: chunks in the buffer of p, 0: none
  buffered,      \* buffered[p]: chunks p has buffered so far
  handed,        \* handed[p]: chunks handed to its connection
  accepting,     \* scheduler and dispatcher accept events and tasks
  events,        \* sendAll events in the scheduler
  sendAlls       \* sendAll tasks in the dispatcher

bufferVars == <<outputBuffer, buffered, handed>>
chainVars == <<events, sendAlls>>
autosendVars == <<bufferedProtocols, bufferVars, accepting, chainVars>>

AutosendInit ==
  /\ bufferedProtocols = <<>>
  /\ outputBuffer = [p \in Protocols |-> 0]
  /\ buffered = [p \in Protocols |-> 0]
  /\ handed = [p \in Protocols |-> 0]
  /\ accepting = TRUE
  /\ events = 0
  /\ sendAlls = 0

Chains == events + sendAlls
Registered == ToSet(bufferedProtocols)

-------------------------------------------------------------------------------
(* Tasks of the dispatcher *)

(* A scheduler that was stopped refuses the event.                         *)
ScheduleSendAll == events' = IF accepting THEN events + 1 ELSE events

AddProtocolToAutosend(p) ==
  /\ Len(bufferedProtocols) < MaxListed
  /\ bufferedProtocols' = Append(bufferedProtocols, p)
  /\ IF bufferedProtocols = <<>>
     THEN Chains < MaxChains /\ ScheduleSendAll
     ELSE UNCHANGED events
  /\ UNCHANGED <<bufferVars, accepting, sendAlls>>

(* The last one takes the place of the first entry of p.                   *)
FirstOf(p) ==
  CHOOSE i \in DOMAIN bufferedProtocols :
    bufferedProtocols[i] = p /\ \A j \in 1..(i - 1) : bufferedProtocols[j] # p
Without(p) ==
  Front([bufferedProtocols EXCEPT ![FirstOf(p)] = Last(bufferedProtocols)])

RemoveProtocolFromAutosend(p) ==
  /\ p \in Registered
  /\ bufferedProtocols' = Without(p)
  /\ UNCHANGED <<bufferVars, accepting, chainVars>>

(* The caller adds one chunk to the buffer it gets.  A buffer without room *)
(* is sent and replaced.                                                   *)
BufferChunk(p) ==
  /\ buffered[p] < MaxChunks
  /\ buffered' = [buffered EXCEPT ![p] = @ + 1]
  /\ IF outputBuffer[p] + 1 > Capacity
     THEN /\ handed' = [handed EXCEPT ![p] = @ + outputBuffer[p]]
          /\ outputBuffer' = [outputBuffer EXCEPT ![p] = 1]
     ELSE /\ outputBuffer' = [outputBuffer EXCEPT ![p] = @ + 1]
          /\ UNCHANGED handed
  /\ UNCHANGED <<bufferedProtocols, accepting, chainVars>>

(* Which protocols sendAll visits, and whether it schedules itself again.  *)
VisitedButLast == ToSet(Front(bufferedProtocols))
Visited == Registered

AgainIfSent == \E p \in Registered : outputBuffer[p] > 0
AgainAlways == TRUE
Again == bufferedProtocols # <<>>

SendAll ==
  /\ sendAlls > 0
  /\ sendAlls' = sendAlls - 1
  /\ handed' = [p \in Protocols |->
                  handed[p] + IF p \in Visited THEN outputBuffer[p] ELSE 0]
  /\ outputBuffer' = [p \in Protocols |->
                        IF p \in Visited THEN 0 ELSE outputBuffer[p]]
  /\ IF Again THEN ScheduleSendAll ELSE UNCHANGED events
  /\ UNCHANGED <<bufferedProtocols, buffered, accepting>>

(* setGameState(SHUTDOWN) stops the scheduler and the dispatcher.          *)
SetGameStateShutdown ==
  /\ accepting
  /\ accepting' = FALSE
  /\ UNCHANGED <<bufferedProtocols, bufferVars, chainVars>>

-------------------------------------------------------------------------------
(* The scheduler hands an event over, or loses it to the shutdown.         *)
EventFires ==
  /\ events > 0
  /\ events' = events - 1
  /\ sendAlls' = IF accepting THEN sendAlls + 1 ELSE sendAlls
  /\ UNCHANGED <<bufferedProtocols, bufferVars, accepting>>

AutosendNext ==
  \/ \E p \in Protocols :
       \/ AddProtocolToAutosend(p)
       \/ RemoveProtocolFromAutosend(p)
       \/ BufferChunk(p)
  \/ SendAll
  \/ SetGameStateShutdown
  \/ EventFires

AutosendSpec == AutosendInit /\ [][AutosendNext]_autosendVars

(* A queued event leaves the scheduler (DueEventLeavesQueue in Scheduler)  *)
(* and an accepted task completes (AcceptedTaskCompletes in Dispatcher).   *)
FairAutosendSpec ==
  /\ AutosendSpec
  /\ WF_autosendVars(EventFires)
  /\ WF_autosendVars(SendAll)

-------------------------------------------------------------------------------
(* Properties *)

(* The lists and counters stay in their types.  The chain is begun when    *)
(* the first protocol registers and continued by sendAll only: as long as  *)
(* somebody is registered and the server runs it is not broken, whoever    *)
(* has left and come back in between.                                      *)
ChainUnbroken ==
  /\ bufferedProtocols \in Seq(Protocols)
  /\ Len(bufferedProtocols) <= MaxListed
  /\ \A p \in Protocols :
       outputBuffer[p] <= Capacity /\ handed[p] + outputBuffer[p] = buffered[p]
  /\ accepting /\ bufferedProtocols # <<>> => Chains > 0

(* What a registered protocol has buffered is handed to its connection,    *)
(* unless it is taken off the list before or the server shuts down.        *)
BufferedIsHandedOver ==
  \A p \in Protocols : \A n \in 1..MaxChunks :
    accepting /\ p \in Registered /\ buffered[p] >= n ~>
      handed[p] >= n \/ p \notin Registered \/ ~accepting

(* Each time the list fills again before the pending sendAll found it      *)
(* empty there is one chain more; all of them end when it stays empty.     *)
ChainsEnd ==
  <>[](bufferedProtocols = <<>>) => <>[](Chains = 0)
===============================================================================
