-------------------------- MODULE CodeBridgeProof --------------------------
(***************************************************************************)
(* Proofs about CodeBridge: however many calls the code makes, the bridge  *)
(* runs a tool at most once for a request.  CallsRunOnce is not inductive: *)
(* that a request without a response was not run before is known only of a *)
(* bridge that still polls, and of every call but the one in its hand.     *)
(***************************************************************************)
EXTENDS CodeBridge, TLAPS

BridgePlaces == {"none", "polling", "running", "answering", "done", "dead"}
BridgeOnCall == bridge.at \in {"running", "answering"}
BridgeOver == bridge.at \in {"done", "dead"}

BridgeShapes ==
  /\ ran \in [Calls -> Nat]
  /\ answer \in [Calls -> {"none", "part", "whole"}]
  /\ bridge \in [at : BridgePlaces, call : Calls \cup {"none"}]

(* The call in the bridge's hand was run; one that was run has a response,  *)
(* or is in hand, or the bridge will never look at it again.               *)
RunOnceInv ==
  /\ BridgeShapes
  /\ run = "none" => bridge.at = "none"
  /\ BridgeOnCall => bridge.call \in Calls /\ ran[bridge.call] = 1
  /\ \A c \in Calls :
       /\ ran[c] <= 1
       /\ answer[c] # "none" => ran[c] = 1
       /\ ran[c] = 1 => \/ answer[c] # "none"
                        \/ bridge.at = "running" /\ bridge.call = c
                        \/ BridgeOver

---------------------------------------------------------------------------
(* A bridge put somewhere has no call.                                      *)
LEMMA BridgeFacts ==
  ASSUME NEW place \in BridgePlaces
  PROVE  /\ Bridge(place) \in [at : BridgePlaces, call : Calls \cup {"none"}]
         /\ Bridge(place).at = place
  BY DEF Bridge, NoBridge, BridgePlaces

(* What touches neither a response nor a count, and leaves the bridge alone  *)
(* or ends it, keeps the invariant: the child's steps and the leaves.        *)
LEMMA BridgeAloneOrOver ==
  ASSUME RunOnceInv, UNCHANGED <<ran, answer>>, run' = "none" => run = "none",
         \/ UNCHANGED bridge
         \/ run # "none" /\ \E place \in {"done", "dead"} : bridge' = Bridge(place)
  PROVE  RunOnceInv'
<1>1. CASE UNCHANGED bridge
  BY <1>1 DEF RunOnceInv, BridgeShapes, BridgeOnCall, BridgeOver
<1>2. ASSUME run # "none", NEW place \in {"done", "dead"}, bridge' = Bridge(place)
      PROVE  RunOnceInv'
  <2>1. /\ bridge' \in [at : BridgePlaces, call : Calls \cup {"none"}]
        /\ bridge'.at = place
    BY <1>2, BridgeFacts DEF BridgePlaces
  <2>2. BridgeOver' /\ ~BridgeOnCall'
    BY <2>1 DEF BridgeOver, BridgeOnCall
  <2> QED BY <1>2, <2>1, <2>2 DEF RunOnceInv, BridgeShapes
<1> QED BY <1>1, <1>2

(* The bridge starts before anything was asked.                             *)
LEMMA StartRunOnce ==
  ASSUME RunOnceInv, NEW limited \in BOOLEAN, StartRun(limited)
  PROVE  RunOnceInv'
<1>1. /\ bridge' \in [at : BridgePlaces, call : Calls \cup {"none"}]
      /\ bridge'.at = "polling"
  BY BridgeFacts DEF StartRun, BridgePlaces
<1>2. ~BridgeOnCall' /\ run' = "open" /\ UNCHANGED <<ran, answer>>
  BY <1>1 DEF StartRun, BridgeOnCall
<1>3. \A c \in Calls : ran[c] = 1 => answer[c] # "none"
  BY DEF StartRun, RunOnceInv, BridgeOver
<1> QED BY <1>1, <1>2, <1>3 DEF RunOnceInv, BridgeShapes

(* A request is taken: it has no response and the bridge polls, so its tool  *)
(* was not run.                                                              *)
LEMMA TakeRunOnce ==
  ASSUME RunOnceInv, NEW c \in Calls, TakeRequest(c)
  PROVE  RunOnceInv'
<1>1. CASE asked[c] = "writing"
  BY <1>1, BridgeAloneOrOver DEF TakeRequest
<1>2. CASE asked[c] # "writing"
  <2>1. /\ bridge' = [at |-> "running", call |-> c] /\ ran' = [ran EXCEPT ![c] = ran[c] + 1]
        /\ bridge.at = "polling" /\ answer[c] = "none" /\ run = "open"
        /\ UNCHANGED <<run, answer>>
    BY <1>2 DEF TakeRequest, Unanswered
  <2>2. ran[c] = 0
    <3>1. ran[c] # 1 /\ ran[c] <= 1 /\ ran[c] \in Nat
      BY <2>1 DEF RunOnceInv, BridgeShapes, BridgeOver
    <3> QED BY <3>1
  <2>3. ran' \in [Calls -> Nat] /\ ran'[c] = 1
    BY <2>1, <2>2 DEF RunOnceInv, BridgeShapes
  <2>4. \A d \in Calls : d # c => ran'[d] = ran[d]
    BY <2>1 DEF RunOnceInv, BridgeShapes
  <2>5. \A d \in Calls \ {c} : ran[d] = 1 => answer[d] # "none"
    BY <2>1 DEF RunOnceInv, BridgeOver
  <2>6. BridgeShapes'
    BY <2>1, <2>3 DEF RunOnceInv, BridgeShapes, BridgePlaces
  <2> QED BY <2>1, <2>3, <2>4, <2>5, <2>6 DEF RunOnceInv, BridgeOnCall
<1> QED BY <1>1, <1>2

(* The response is begun for the call that was run.                         *)
LEMMA ToolEndsRunOnce ==
  ASSUME RunOnceInv, ToolEnds
  PROVE  RunOnceInv'
<1>1. bridge.at = "running" /\ BridgeOnCall /\ run # "none"
  BY DEF ToolEnds, BridgeOnCall, RunOnceInv
<1>2. CASE bridge' = Bridge("dead") /\ UNCHANGED answer
  BY <1>1, <1>2, BridgeAloneOrOver DEF ToolEnds
<1>3. CASE /\ bridge' = [bridge EXCEPT !.at = "answering"]
           /\ answer' = [answer EXCEPT ![bridge.call] = "part"]
  <2>1. bridge.call \in Calls /\ ran[bridge.call] = 1
    BY <1>1 DEF RunOnceInv
  <2>2. BridgeShapes' /\ bridge'.at = "answering" /\ bridge'.call = bridge.call
    BY <1>3 DEF ToolEnds, RunOnceInv, BridgeShapes, BridgePlaces
  <2>3. \A d \in Calls : answer'[d] = IF d = bridge.call THEN "part" ELSE answer[d]
    BY <1>3 DEF RunOnceInv, BridgeShapes
  <2> QED BY <1>1, <2>1, <2>2, <2>3 DEF RunOnceInv, BridgeOnCall, BridgeOver, ToolEnds
<1> QED BY <1>2, <1>3 DEF ToolEnds

(* The response is whole, and the bridge polls again.                       *)
LEMMA CloseResponseRunOnce ==
  ASSUME RunOnceInv, CloseResponse
  PROVE  RunOnceInv'
<1>1. BridgeOnCall /\ run # "none" /\ bridge.at = "answering"
  BY DEF CloseResponse, BridgeOnCall, RunOnceInv
<1>2. bridge.call \in Calls /\ ran[bridge.call] = 1
  BY <1>1 DEF RunOnceInv
<1>3. answer' = [answer EXCEPT ![bridge.call] = "whole"]
  BY DEF CloseResponse
<1>4. /\ bridge' \in [at : BridgePlaces, call : Calls \cup {"none"}]
      /\ bridge'.at = "polling"
  BY BridgeFacts DEF CloseResponse, BridgePlaces
<1>5. \A d \in Calls : answer'[d] = IF d = bridge.call THEN "whole" ELSE answer[d]
  BY <1>3 DEF RunOnceInv, BridgeShapes
<1>6. BridgeShapes'
  BY <1>3, <1>4 DEF CloseResponse, RunOnceInv, BridgeShapes
<1> QED BY <1>1, <1>2, <1>4, <1>5, <1>6 DEF RunOnceInv, BridgeOnCall, BridgeOver, CloseResponse

(* The child's steps, the end of the bridge, and the leaves.                 *)
LEMMA OtherRunOnce ==
  ASSUME RunOnceInv,
         \/ \E c \in Calls : OpenRequest(c) \/ CloseRequest(c) \/ ReadResponse(c)
         \/ ChildEnds \/ BridgeReturns \/ TimesOut \/ Collect \/ CancelRun
  PROVE  RunOnceInv'
<1>1. UNCHANGED <<ran, answer>> /\ (run' = "none" => run = "none")
  BY DEF OpenRequest, CloseRequest, ReadResponse, ChildEnds, BridgeReturns, TimesOut,
     Collect, CancelRun, Leave
<1>2. CASE BridgeReturns
  BY <1>1, <1>2, BridgeAloneOrOver DEF BridgeReturns, RunOnceInv
<1>3. CASE Collect \/ CancelRun
  BY <1>1, <1>3, BridgeAloneOrOver DEF Collect, CancelRun, Leave
<1>4. CASE UNCHANGED bridge
  BY <1>1, <1>4, BridgeAloneOrOver
<1> QED BY <1>2, <1>3, <1>4
     DEF OpenRequest, CloseRequest, ReadResponse, ChildEnds, TimesOut

(* Every step of child, bridge and run keeps the invariant.                  *)
LEMMA StepRunOnce ==
  ASSUME RunOnceInv, [BridgeNext]_bridgeVars
  PROVE  RunOnceInv'
<1>1. CASE UNCHANGED bridgeVars
  BY <1>1, BridgeAloneOrOver DEF bridgeVars
<1>2. CASE BridgeNext
  BY <1>2, StartRunOnce, TakeRunOnce, ToolEndsRunOnce, CloseResponseRunOnce, OtherRunOnce
     DEF BridgeNext
<1> QED BY <1>1, <1>2

(* However often the bridge scans the directory, whatever the child, a        *)
(* timeout or a cancellation does: a tool runs at most once for a request,    *)
(* and no call has an answer without it.                                      *)
THEOREM ToolRunsOnce == BridgeSpec => []CallsRunOnce
<1>1. BridgeInit => RunOnceInv
  BY DEF BridgeInit, RunOnceInv, BridgeShapes, BridgeOnCall, BridgeOver, NoBridge, BridgePlaces
<1>2. RunOnceInv => CallsRunOnce
  BY DEF RunOnceInv, CallsRunOnce
<1> QED BY <1>1, <1>2, StepRunOnce, PTL DEF BridgeSpec

(* The places of run and child, beside the shapes of the rest.               *)
BridgePlaced ==
  /\ run \in {"none", "open", "closed", "cancelled"}
  /\ timed \in BOOLEAN
  /\ child \in {"none", "running", "ended"}
  /\ asked \in [Calls -> {"no", "writing", "waiting", "answered", "garbled"}]

(* Every step moves run, child and calls between their places.               *)
LEMMA StepPlaced ==
  ASSUME BridgePlaced, [BridgeNext]_bridgeVars
  PROVE  BridgePlaced'
<1> USE DEF BridgePlaced
<1>1. CASE UNCHANGED bridgeVars
  BY <1>1 DEF bridgeVars
<1>2. ASSUME NEW limited \in BOOLEAN, StartRun(limited) PROVE BridgePlaced'
  BY <1>2 DEF StartRun
<1>3. ASSUME NEW c \in Calls, OpenRequest(c) \/ CloseRequest(c) \/ ReadResponse(c)
      PROVE  BridgePlaced'
  <2>1. PICK at \in {"writing", "waiting", "answered", "garbled"} :
          asked' = [asked EXCEPT ![c] = at]
    BY <1>3 DEF OpenRequest, CloseRequest, ReadResponse
  <2>2. UNCHANGED <<run, timed, child>>
    BY <1>3 DEF OpenRequest, CloseRequest, ReadResponse
  <2> QED BY <2>1, <2>2
<1>4. ASSUME NEW c \in Calls, TakeRequest(c) PROVE BridgePlaced'
  BY <1>4 DEF TakeRequest
<1>5. CASE ToolEnds \/ CloseResponse \/ BridgeReturns
  BY <1>5 DEF ToolEnds, CloseResponse, BridgeReturns
<1>6. CASE ChildEnds \/ TimesOut \/ Collect \/ CancelRun
  BY <1>6 DEF ChildEnds, TimesOut, Collect, CancelRun, Leave
<1> QED BY <1>1, <1>2, <1>3, <1>4, <1>5, <1>6 DEF BridgeNext

(* Both processes, their files and the bridge task keep their types.          *)
THEOREM BridgeTypes == BridgeSpec => []BridgeTypeOK
<1>0. BridgeInit => BridgePlaced
  BY DEF BridgeInit, BridgePlaced
<1>1. BridgeInit => RunOnceInv
  BY DEF BridgeInit, RunOnceInv, BridgeShapes, BridgeOnCall, BridgeOver, NoBridge, BridgePlaces
<1>2. RunOnceInv /\ BridgePlaced => BridgeTypeOK
  BY DEF RunOnceInv, BridgeShapes, BridgePlaces, BridgePlaced, BridgeTypeOK
<1> QED BY <1>0, <1>1, <1>2, StepRunOnce, StepPlaced, PTL DEF BridgeSpec

=============================================================================
