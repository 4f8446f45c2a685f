-------------------------------- MODULE CodeBridge --------------------------------
(***************************************************************************)
(* The local bridge of CodeMode (src/mem_graph/sandbox/provider.py): a child *)
(* process runs the submitted code and calls tools of the server by files in *)
(* a temporary directory. The child writes request-<id>.json and polls for   *)
(* response-<id>.json; the bridge task of the server polls for requests, runs *)
(* the tool and writes the response.                                         *)
(*                                                                          *)
(* Neither file is written atomically: the other process may find it with    *)
(* part of its text. The child is one thread, so it writes one request at a  *)
(* time, but its code may have several calls open. What the tools do is      *)
(* outside; a tool may raise, and its result may not fit into JSON.          *)
(***************************************************************************)
EXTENDS Integers

CONSTANT Calls  \* the calls of call_tool that the code makes

VARIABLES
  run,     \* _run_local_bridge: "none", "open", "closed", or "cancelled"
  timed,   \* it was given timeout_seconds; execute gives none
  child,   \* the process: "none", "running", "ended"
  asked,   \* where the code is in each call
  answer,  \* the response file of each call
  bridge,  \* _serve_external_functions: "none", "polling", "done", "dead"; or the
           \* call it is running or writing the response of
  ran      \* history: how often the tool was run for each call

bridgeVars == <<run, timed, child, asked, answer, bridge, ran>>

NoBridge == [at |-> "none", call |-> "none"]
Bridge(place) == [NoBridge EXCEPT !.at = place]
Polls(c) == asked[c] = "waiting"

(* Mutant: a request with a response is taken again.                         *)
Unanswered_mutantReplayed(c) == asked[c] # "no"

Unanswered(c) == asked[c] # "no" /\ answer[c] = "none"

BridgeInit ==
  /\ run = "none" /\ timed = FALSE /\ child = "none"
  /\ asked = [c \in Calls |-> "no"]
  /\ answer = [c \in Calls |-> "none"]
  /\ bridge = NoBridge
  /\ ran = [c \in Calls |-> 0]

StartRun(limited) ==
  /\ run = "none"
  /\ run' = "open" /\ timed' = limited
  /\ child' = "running" /\ bridge' = Bridge("polling")
  /\ UNCHANGED <<asked, answer, ran>>

---------------------------------------------------------------------------
(* The child. It cannot open a request once the directory is gone; a call    *)
(* that waits then polls for ever.                                           *)

OpenRequest(c) ==
  /\ child = "running" /\ run = "open"
  /\ asked[c] = "no"
  /\ \A d \in Calls : asked[d] # "writing"
  /\ asked' = [asked EXCEPT ![c] = "writing"]
  /\ UNCHANGED <<run, timed, child, answer, bridge, ran>>

CloseRequest(c) ==
  /\ child = "running"
  /\ asked[c] = "writing"
  /\ asked' = [asked EXCEPT ![c] = "waiting"]
  /\ UNCHANGED <<run, timed, child, answer, bridge, ran>>

(* The response exists: it is read as it is. Half of one raises in the code.  *)
ReadResponse(c) ==
  /\ child = "running" /\ run = "open"
  /\ Polls(c) /\ answer[c] # "none"
  /\ asked' = [asked EXCEPT ![c] = IF answer[c] = "whole" THEN "answered" ELSE "garbled"]
  /\ UNCHANGED <<run, timed, child, answer, bridge, ran>>

(* The code returns or raises, perhaps with calls open. *)
ChildEnds ==
  /\ child = "running"
  /\ \A c \in Calls : asked[c] # "writing"
  /\ child' = "ended"
  /\ UNCHANGED <<run, timed, asked, answer, bridge, ran>>

---------------------------------------------------------------------------
(* The bridge task: one request after another. *)

(* A request of which only a part is there raises JSONDecodeError: the task   *)
(* is over, and nobody looks at it before the child has ended.               *)
TakeRequest(c) ==
  /\ run = "open"
  /\ bridge.at = "polling"
  /\ Unanswered(c)
  /\ IF asked[c] = "writing"
     THEN bridge' = Bridge("dead") /\ UNCHANGED ran
     ELSE /\ bridge' = [at |-> "running", call |-> c]
          /\ ran' = [ran EXCEPT ![c] = @ + 1]
  /\ UNCHANGED <<run, timed, child, asked, answer>>

(* Mutant: a tool that raises ends the bridge without a response.            *)
ToolEnds_mutantSilent ==
  /\ bridge.at = "running"
  /\ \/ /\ bridge' = [bridge EXCEPT !.at = "answering"]
        /\ answer' = [answer EXCEPT ![bridge.call] = "part"]
     \/ bridge' = Bridge("done") /\ UNCHANGED answer
  /\ UNCHANGED <<run, timed, child, asked, ran>>

(* The tool returned or raised: both make a response, unless the result       *)
(* cannot be encoded. That raises outside the try.                           *)
ToolEnds ==
  /\ bridge.at = "running"
  /\ \/ /\ bridge' = [bridge EXCEPT !.at = "answering"]
        /\ answer' = [answer EXCEPT ![bridge.call] = "part"]
     \/ bridge' = Bridge("dead") /\ UNCHANGED answer
  /\ UNCHANGED <<run, timed, child, asked, ran>>

CloseResponse ==
  /\ bridge.at = "answering"
  /\ answer' = [answer EXCEPT ![bridge.call] = "whole"]
  /\ bridge' = Bridge("polling")
  /\ UNCHANGED <<run, timed, child, asked, ran>>

BridgeReturns ==
  /\ bridge.at = "polling"
  /\ child = "ended"
  /\ \A c \in Calls : ~Unanswered(c)
  /\ bridge' = Bridge("done")
  /\ UNCHANGED <<run, timed, child, asked, answer, ran>>

---------------------------------------------------------------------------
(* _run_local_bridge, from process.communicate() on. *)

TimesOut ==
  /\ run = "open" /\ timed
  /\ child = "running"
  /\ child' = "ended"
  /\ UNCHANGED <<run, timed, asked, answer, bridge, ran>>

(* The finally: the bridge is cancelled, then the directory is removed. The   *)
(* write of a response is not interrupted.                                   *)
Leave(how) ==
  /\ run = "open"
  /\ bridge.at # "answering"
  /\ run' = how
  /\ bridge' = IF bridge.at \in {"done", "dead"} THEN bridge ELSE Bridge("done")
  /\ UNCHANGED <<timed, child, asked, answer, ran>>

Collect == child = "ended" /\ Leave("closed")

(* The request is cancelled while it waits: the child is not killed. *)
CancelRun == Leave("cancelled")

BridgeNext ==
  \/ \E limited \in BOOLEAN : StartRun(limited)
  \/ \E c \in Calls :
       OpenRequest(c) \/ CloseRequest(c) \/ ReadResponse(c) \/ TakeRequest(c)
  \/ ChildEnds \/ ToolEnds \/ CloseResponse \/ BridgeReturns
  \/ TimesOut \/ Collect \/ CancelRun

BridgeSpec == BridgeInit /\ [][BridgeNext]_bridgeVars

(* Both processes run; tools return; the code ends once no call of it is open. *)
BridgeFairness ==
  /\ \A c \in Calls : /\ WF_bridgeVars(CloseRequest(c))
                      /\ WF_bridgeVars(ReadResponse(c))
                      /\ WF_bridgeVars(TakeRequest(c))
  /\ WF_bridgeVars(ToolEnds) /\ WF_bridgeVars(CloseResponse)
  /\ WF_bridgeVars(Collect) /\ WF_bridgeVars(TimesOut)
  /\ WF_bridgeVars(ChildEnds /\ \A c \in Calls : ~Polls(c))

---------------------------------------------------------------------------
BridgeTypeOK ==
  /\ run \in {"none", "open", "closed", "cancelled"}
  /\ timed \in BOOLEAN
  /\ child \in {"none", "running", "ended"}
  /\ asked \in [Calls -> {"no", "writing", "waiting", "answered", "garbled"}]
  /\ answer \in [Calls -> {"none", "part", "whole"}]
  /\ bridge.at \in {"none", "polling", "running", "answering", "done", "dead"}
  /\ bridge.call \in Calls \cup {"none"}
  /\ ran \in [Calls -> Nat]

(* The bridge scans the directory again and again: a tool is run at most once *)
(* for a request, and a call has an answer only if its tool was run.         *)
CallsRunOnce ==
  \A c \in Calls : ran[c] <= 1 /\ (answer[c] # "none" => ran[c] = 1)

(* execute gives no timeout, so the child and the bridge must bring each other *)
(* to an end: the run ends unless the bridge died of half a request or of a  *)
(* result it could not encode.                                               *)
RunEnds == run = "open" ~> run # "open" \/ bridge.at = "dead"
=================================================================================
