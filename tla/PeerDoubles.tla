----------------------------- MODULE PeerDoubles -----------------------------
(***************************************************************************)
(* The suite's A2A peer (a2a-fake-peer.ts): two protocol versions over one *)
(* set of tasks, and the hooks by which a scenario chooses the next answer.*)
(* The host under test, external, calls it with any header and method.     *)
(***************************************************************************)
EXTENDS Naturals, Sequences, SequencesExt, FiniteSets

CONSTANTS
  PeerVersions, \* what a peer may be constructed to speak: sequences
  TaskStates,   \* the states scenarios ask for
  MaxTasks      \* bound on the tasks a peer creates

TerminalStates == {"COMPLETED", "FAILED", "CANCELED", "REJECTED"}

VARIABLES
  protocolVersions,
  tasks,           \* by id: [state, authority, final], final the state it ended in
  nextState, nextAuthority, legacyErrorData, \* what the scenario has set
  reply            \* the last answer

peerVars == <<protocolVersions, tasks, nextState, nextAuthority, legacyErrorData, reply>>

spoken == {protocolVersions[i] : i \in 1..Len(protocolVersions)}

-----------------------------------------------------------------------------
(* The scenario's hooks.                                                   *)
setNextState(s) ==
  /\ nextState' = s
  /\ UNCHANGED <<protocolVersions, tasks, nextAuthority, legacyErrorData, reply>>

setNextPeerAssertsAuthority ==
  /\ ~nextAuthority
  /\ nextAuthority' = TRUE
  /\ UNCHANGED <<protocolVersions, tasks, nextState, legacyErrorData, reply>>

setLegacyErrorData ==
  /\ ~legacyErrorData
  /\ legacyErrorData' = TRUE
  /\ UNCHANGED <<protocolVersions, tasks, nextState, nextAuthority, reply>>

(* A2A's own terminal states.                                              *)
Ending(s) == IF s \in {"COMPLETED", "FAILED", "CANCELED", "REJECTED"} THEN s ELSE "none"

(* advanceTask: the scenario may move any task, an ended one too.          *)
advanceTask(id, s) ==
  /\ tasks[id].state # s
  /\ tasks' = [tasks EXCEPT ![id].state = s, ![id].final = Ending(s)]
  /\ UNCHANGED <<protocolVersions, nextState, nextAuthority, legacyErrorData, reply>>

(* reset: the ids start over.                                              *)
resetPeer ==
  /\ tasks' = <<>> /\ nextState' = "none" /\ nextAuthority' = FALSE
  /\ legacyErrorData' = FALSE /\ reply' = [to |-> "none"]
  /\ UNCHANGED protocolVersions

-----------------------------------------------------------------------------
(* The well-known card: the version asked for, else the first spoken.      *)
GetCard(header) ==
  /\ reply' = [to |-> "card", era |-> IF header \in spoken THEN header ELSE protocolVersions[1]]
  /\ UNCHANGED <<protocolVersions, tasks, nextState, nextAuthority, legacyErrorData>>

errorData == IF legacyErrorData THEN "object" ELSE "Any[]"
Refusal(code, data) == [to |-> "error", code |-> code, data |-> data]

(* No header is 0.3; a version the peer does not speak is refused.         *)
requested(header) == IF header = "absent" THEN "0.3" ELSE header

Hooks == <<nextState, nextAuthority>>

(* newTask: both hooks are good for one task.                              *)
NewTask(method) ==
  /\ Len(tasks) < MaxTasks
  /\ LET state == IF nextState = "none" THEN "SUBMITTED" ELSE nextState
         task  == [state |-> state, authority |-> nextAuthority, final |-> Ending(state)]
     IN  tasks' = Append(tasks, task) /\ reply' = [to |-> method, task |-> task]
  /\ nextState' = "none" /\ nextAuthority' = FALSE

ReadTask(method, id) ==
  /\ reply' = IF id \in DOMAIN tasks THEN [to |-> method, task |-> tasks[id]]
              ELSE Refusal("TASK_NOT_FOUND", IF method = "GetTask" THEN errorData ELSE "none")
  /\ UNCHANGED <<tasks, Hooks>>

CancelTask(id) ==
  /\ IF id \notin DOMAIN tasks
     THEN reply' = Refusal("TASK_NOT_FOUND", errorData) /\ UNCHANGED tasks
     ELSE IF tasks[id].state \in TerminalStates
     THEN reply' = Refusal("TASK_NOT_CANCELABLE", errorData) /\ UNCHANGED tasks
     ELSE /\ tasks' = [tasks EXCEPT ![id].state = "CANCELED",
                                    ![id].final = IF @ = "none" THEN "CANCELED" ELSE @]
          /\ reply' = [to |-> "CancelTask", task |-> tasks'[id]]
  /\ UNCHANGED Hooks

(* ListTasks counts what the filter lets through, and shows one page of it.*)
ListTasks(state, pageSize) ==
  /\ LET through == Cardinality({id \in DOMAIN tasks : tasks[id].state = state}) IN
     reply' = [to |-> "ListTasks", totalSize |-> through,
               shown |-> IF through < pageSize THEN through ELSE pageSize]
  /\ UNCHANGED <<tasks, Hooks>>

Streaming == /\ reply' = Refusal("UNSUPPORTED_OPERATION", errorData)
             /\ UNCHANGED <<tasks, Hooks>>

(* A name of the other version is not found under this one.                *)
UnknownMethod == reply' = Refusal("METHOD_NOT_FOUND", "none") /\ UNCHANGED <<tasks, Hooks>>

(* One JSON-RPC request.                                                   *)
Rpc(header, id) ==
  /\ UNCHANGED <<protocolVersions, legacyErrorData>>
  /\ \/ /\ requested(header) \notin spoken
        /\ reply' = Refusal("VERSION_NOT_SUPPORTED", errorData)
        /\ UNCHANGED <<tasks, Hooks>>
     \/ /\ requested(header) \in spoken /\ requested(header) = "1.0"
        /\ \/ NewTask("SendMessage") \/ ReadTask("GetTask", id) \/ CancelTask(id)
           \/ \E s \in {"SUBMITTED", "CANCELED"} : ListTasks(s, 1)
           \/ Streaming \/ UnknownMethod
     \/ /\ requested(header) \in spoken /\ requested(header) = "0.3"
        /\ NewTask("message/send") \/ ReadTask("tasks/get", id) \/ UnknownMethod

-----------------------------------------------------------------------------
PeerInit ==
  /\ protocolVersions \in PeerVersions
  /\ tasks = <<>> /\ nextState = "none" /\ nextAuthority = FALSE
  /\ legacyErrorData = FALSE /\ reply = [to |-> "none"]

PeerNext ==
  \/ \E s \in TaskStates : setNextState(s)
  \/ setNextPeerAssertsAuthority \/ setLegacyErrorData \/ resetPeer
  \/ \E id \in DOMAIN tasks, s \in TaskStates : advanceTask(id, s)
  \/ \E header \in {"absent", "1.0", "0.3", "0.4"} :
       GetCard(header) \/ \E id \in 1..MaxTasks : Rpc(header, id)

PeerSpec == PeerInit /\ [][PeerNext]_peerVars

-----------------------------------------------------------------------------
(* A2A: a task in a terminal state takes no further call. What the peer    *)
(* says of a task that ended is what it ended in, in both versions.        *)
EndedTasksStay ==
  \A id \in DOMAIN tasks : tasks[id].final # "none" => tasks[id].state = tasks[id].final

-----------------------------------------------------------------------------
(***************************************************************************)
(* The suite's MCP server (mcp-fake-server.ts): two revisions, the paged   *)
(* tool list, the tools that ask for input before they complete, and the   *)
(* record of what was answered. The client, external, is the host under    *)
(* test: it walks the list by the cursors it is given and retries with the *)
(* request state it was given, between calls of any other kind.            *)
(***************************************************************************)
CONSTANTS
  ServerRevisions, \* what a server may be constructed to speak: sets of revisions
  Catalogue,       \* the number of tools of the current revision
  TOOLS_PAGE_SIZE,
  Rounds,          \* the rounds a client asks the looping tool for
  MaxRecorded      \* bound on the recorded requests

ASSUME McpAssumption == Catalogue \in Nat /\ Rounds \in Nat /\ TOOLS_PAGE_SIZE \in Nat \ {0}

CURRENT == "2026-07-28"
LEGACY == "2025-06-18"

VARIABLES
  revisions, stateCounter, nextResultAssertsAuthority,
  invocations, exchanges,  \* how many requests were received, and answered
  answer,                  \* the last answer
  \* The client.
  cursor, listed,          \* its walk: where the next page starts, the tools it was shown
  requestState, asked, looped \* its loop: the state it holds, the inputs it was asked for, done

serverVars == <<revisions, stateCounter, nextResultAssertsAuthority, invocations, exchanges,
                answer>>
clientVars == <<cursor, listed, requestState, asked, looped>>
mcpVars == <<serverVars, clientVars>>

Least(a, b) == IF a < b THEN a ELSE b

-----------------------------------------------------------------------------
(* No header is a legacy request where the server speaks the legacy        *)
(* revision, and is refused where it does not.                             *)
Revision(header) == IF header = "absent" THEN LEGACY ELSE header

McpError(code) == [kind |-> "error", code |-> code]

(* Every request with a method is an invocation; one past the revision     *)
(* check is an exchange too.                                               *)
Received(answered) ==
  /\ invocations < MaxRecorded
  /\ invocations' = invocations + 1
  /\ exchanges' = IF answered THEN exchanges + 1 ELSE exchanges
  /\ UNCHANGED revisions

UnsupportedRevision(header) ==
  /\ Revision(header) \notin revisions
  /\ Received(FALSE)
  /\ answer' = McpError("UNSUPPORTED_PROTOCOL_VERSION")
  /\ UNCHANGED <<stateCounter, nextResultAssertsAuthority, clientVars>>

-----------------------------------------------------------------------------
(* The legacy revision: a handshake, one tool, no pages.                   *)
Legacy(header) ==
  /\ Revision(header) = LEGACY /\ LEGACY \in revisions
  /\ Received(TRUE)
  /\ \E result \in {"initialized", "echo only", "echoed"} :
       answer' \in {[kind |-> "complete", result |-> result], McpError("UNKNOWN_TOOL"),
                    McpError("METHOD_NOT_FOUND")}
  /\ UNCHANGED <<stateCounter, nextResultAssertsAuthority, clientVars>>

Current == CURRENT \in revisions

(* The header and the body must agree on revision, method and tool; every  *)
(* request but the discovery names its revision. What this revision        *)
(* removed, and what it never had, is not found.                           *)
CurrentRefused ==
  /\ Current /\ Received(TRUE)
  /\ answer' \in {McpError("HEADER_MISMATCH"), McpError("METHOD_NOT_FOUND")}
  /\ UNCHANGED <<stateCounter, nextResultAssertsAuthority, clientVars>>

Discover ==
  /\ Current /\ Received(TRUE)
  /\ answer' = [kind |-> "complete", result |-> revisions]
  /\ UNCHANGED <<stateCounter, nextResultAssertsAuthority, clientVars>>

(* tools/list: one page from the cursor, and the next cursor while tools   *)
(* are left. A cursor the server never gives is refused.                   *)
NoCursor == [next |-> 0, over |-> FALSE]
CursorTo(to) == [next |-> to, over |-> to >= Catalogue]

Page(from) == [i \in 1..(Least(Catalogue, from + TOOLS_PAGE_SIZE) - from) |-> from + i]

ListTools ==
  /\ Current /\ Received(TRUE)
  /\ ~cursor.over
  /\ answer' = [kind |-> "complete", result |-> Page(cursor.next)]
  /\ listed' = listed \o Page(cursor.next)
  /\ cursor' = CursorTo(Least(Catalogue, cursor.next + TOOLS_PAGE_SIZE))
  /\ UNCHANGED <<stateCounter, nextResultAssertsAuthority, requestState, asked, looped>>

ListBadCursor ==
  /\ Current /\ Received(TRUE)
  /\ answer' = McpError("INVALID_CURSOR")
  /\ UNCHANGED <<stateCounter, nextResultAssertsAuthority, clientVars>>

(* The tools that complete at once; the hook is good for one echo.         *)
CallTool(name) ==
  /\ Current /\ Received(TRUE)
  /\ answer' = [kind |-> "complete", result |-> name,
                authority |-> name = "echo" /\ nextResultAssertsAuthority]
  /\ nextResultAssertsAuthority' = (nextResultAssertsAuthority /\ name # "echo")
  /\ UNCHANGED <<stateCounter, clientVars>>

(* needs_input: asks once. A retry with a name needs a state of this       *)
(* tool's making; any counter in it is accepted.                           *)
NeedsInput(elicits, named, state) ==
  /\ Current /\ Received(TRUE)
  /\ IF named
     THEN /\ answer' = IF state = "issued" THEN [kind |-> "complete", result |-> "hello"]
                       ELSE McpError("INVALID_STATE")
          /\ UNCHANGED stateCounter
     ELSE IF ~elicits
     THEN answer' = McpError("MISSING_CLIENT_CAPABILITY") /\ UNCHANGED stateCounter
     ELSE answer' = [kind |-> "input_required", result |-> stateCounter + 1]
          /\ stateCounter' = stateCounter + 1
  /\ UNCHANGED <<nextResultAssertsAuthority, clientVars>>

(* needs_input_loop: asks once for every round before it completes.        *)
Served(served) == served >= Rounds

NeedsInputLoop ==
  /\ Current /\ Received(TRUE) /\ ~looped
  /\ IF Served(requestState)
     THEN /\ answer' = [kind |-> "complete", result |-> requestState]
          /\ looped' = TRUE /\ UNCHANGED <<requestState, asked>>
     ELSE /\ answer' = [kind |-> "input_required", result |-> requestState + 1]
          /\ requestState' = requestState + 1 /\ asked' = asked + 1 /\ UNCHANGED looped
  /\ UNCHANGED <<stateCounter, nextResultAssertsAuthority, cursor, listed>>

-----------------------------------------------------------------------------
(* The scenario's hooks. A client may be in the middle of a walk or a loop *)
(* when the server is reset.                                               *)
setNextResultAssertsAuthority ==
  /\ ~nextResultAssertsAuthority
  /\ nextResultAssertsAuthority' = TRUE
  /\ UNCHANGED <<revisions, stateCounter, invocations, exchanges, answer, clientVars>>

resetServer ==
  /\ invocations > 0
  /\ invocations' = 0 /\ exchanges' = 0 /\ stateCounter' = 0
  /\ nextResultAssertsAuthority' = FALSE
  /\ UNCHANGED <<revisions, answer, clientVars>>

-----------------------------------------------------------------------------
McpInit ==
  /\ revisions \in ServerRevisions
  /\ stateCounter = 0 /\ nextResultAssertsAuthority = FALSE
  /\ invocations = 0 /\ exchanges = 0 /\ answer = McpError("none")
  /\ cursor = NoCursor /\ listed = <<>> /\ requestState = 0 /\ asked = 0 /\ looped = FALSE

McpNext ==
  \/ \E header \in {"absent", CURRENT, LEGACY, "other"} :
       UnsupportedRevision(header) \/ Legacy(header)
  \/ CurrentRefused \/ Discover \/ ListTools \/ ListBadCursor
  \/ \E name \in {"echo", "structured-echo", "always-error"} : CallTool(name)
  \/ \E elicits, named \in BOOLEAN, state \in {"issued", "not issued"} :
       NeedsInput(elicits, named, state)
  \/ NeedsInputLoop \/ setNextResultAssertsAuthority \/ resetServer

McpSpec == McpInit /\ [][McpNext]_mcpVars

-----------------------------------------------------------------------------
(* RFC 0204 and RFC 0175: a client that follows the cursors has seen every *)
(* tool once, and one that echoes its state is asked once for every round, *)
(* whatever else was called and whenever the server was reset.             *)
WalkAndLoopAreWhole ==
  /\ cursor.over => listed = [i \in 1..Catalogue |-> i]
  /\ looped => asked = Rounds

-----------------------------------------------------------------------------
(***************************************************************************)
(* conformance/src/lib/otel-collector.ts and otlp-protobuf.ts: the suite   *)
(* stands a collector where a host exports its telemetry, as JSON, as      *)
(* protobuf or by gRPC, and looks through it for a planted canary. Exports *)
(* are under way while scenarios start over and look; one whose answer is *)
(* lost is exported again.                                                 *)
(*                                                                         *)
(* An item is one span or one metric: its run, and where in it the canary  *)
(* is. The messages around an item are decoded by one loop over fields.    *)
(***************************************************************************)
CONSTANTS
  Items,       \* what a host may export: [signal, run, spot, shape]
  MaxExports   \* bound on the exports under way or answered

Signals == {"span", "metric"}
Encodings == {"json", "protobuf", "grpc", "text"}

(* Where a canary may stand in what is exported, and the shapes of what is *)
(* exported that the decoders tell apart.                                  *)
SpanSpots == {"name", "attribute", "key", "list value", "resource", "kvlist value", "bytes value"}
MetricSpots == SpanSpots \cup {"second point", "description"}

ASSUME CollectorAssumption ==
  Items \subseteq [signal : {"span"}, run : STRING, spot : SpanSpots, shape : {"plain"}] \cup
                  [signal : {"metric"}, run : STRING, spot : MetricSpots,
                   shape : {"plain", "histogram", "no points"}]

VARIABLES
  offered,    \* two items the host has to export
  standing,    \* the servers that listen: a subset of {"http", "grpc"}
  exports,    \* the exports so far, in order: [via, route, frames, answer]
  captured,   \* _spans and _metrics, which are searched whatever their order
  accepted    \* history: frames answered with success since the last reset

collectorVars == <<offered, standing, exports, captured, accepted>>

ServerOf(via) == IF via = "grpc" THEN "grpc" ELSE "http"
Pending(n) == exports[n].answer = "none"

-----------------------------------------------------------------------------
(* The field loop of every decoder of otlp-protobuf.ts: a field it reads   *)
(* must fit in what there is; one it skips need not, and ends the message. *)
(* The points of a histogram are read as points of a sum: their fields are *)
(* not where it looks, and what it meets there may not decode at all.      *)
Decodes(frame, fault) ==
  /\ fault # "field cut short"
  /\ frame.shape = "histogram" => fault # "unreadable point"

(* decodeAttrValue: a list of pairs and bytes become null, in JSON too.    *)
ValueIsKept(spot) == spot \notin {"kvlist value", "bytes value"}

(* Where the canary is in what was kept of an item: _ingestMetrics keeps   *)
(* the first point of a metric and nothing of its resource.                *)
Kept(sent, via) ==
  LET lost ==
        \/ ~ValueIsKept(sent.spot)
        \/ sent.signal = "metric" /\ sent.spot \in {"resource", "second point", "description"}
        \/ sent.shape = "histogram" /\ via # "json"
  IN [sent EXCEPT !.spot = IF lost THEN "nowhere" ELSE @]

(* A metric with no point at all is not kept.                              *)
Ingested(frames, via) ==
  {Kept(f, via) : f \in {g \in Range(frames) : g.shape # "no points"}}

-----------------------------------------------------------------------------
(* The host sends an export, or sends one again whose answer it lost.      *)
Export(via, route, frames) ==
  /\ Len(exports) < MaxExports /\ ServerOf(via) \in standing
  /\ route = "log" \/ \A i \in DOMAIN frames : frames[i].signal = route
  /\ Len(frames) > 1 => via = "grpc"
  /\ exports' = Append(exports, [via |-> via, route |-> route, frames |-> frames, answer |-> "none"])
  /\ UNCHANGED <<offered, standing, captured, accepted>>

Again(n) ==
  /\ ~Pending(n) /\ Export(exports[n].via, exports[n].route, exports[n].frames)

(* Only the routes of traces and of metrics keep anything.                 *)
OfRoute(n) == IF exports[n].route \in Signals THEN exports[n].frames ELSE <<>>

Settle(n, result, kept) ==
  /\ exports' = [exports EXCEPT ![n].answer = result]
  /\ captured' = captured \cup kept
  /\ accepted' = IF result # "ok" THEN accepted
                 ELSE accepted \cup {<<f, exports[n].via>> : f \in Range(OfRoute(n))}
  /\ UNCHANGED <<offered, standing>>

(* Too large, of another content type, or not decodable.                   *)
HandleRefused(n) ==
  /\ Pending(n)
  /\ \/ Settle(n, "too-large", {})
     \/ exports[n].via = "text" /\ Settle(n, "unsupported", {})
     \/ exports[n].via = "json" /\ Settle(n, "invalid", {})
     \/ exports[n].via = "protobuf" /\ exports[n].route \in Signals
        /\ \E fault \in {"field cut short", "unreadable point"} :
             ~Decodes(exports[n].frames[1], fault) /\ Settle(n, "invalid", {})

(* gRPC frames are cut apart first, then decoded and kept one by one: what *)
(* precedes the one that does not decode stays.                            *)
HandleGrpcRefused(n) ==
  /\ Pending(n) /\ exports[n].via = "grpc"
  /\ \/ Settle(n, "invalid", {})
     \/ /\ exports[n].route \in Signals
        /\ \E i \in DOMAIN exports[n].frames : \E fault \in {"field cut short", "unreadable point"} :
             /\ ~Decodes(exports[n].frames[i], fault)
             /\ Settle(n, "invalid", Ingested(SubSeq(OfRoute(n), 1, i - 1), "grpc"))

(* Accepted; logs and unknown routes are answered so that the exporter     *)
(* does not try again, and nothing is kept of them.                        *)
HandleAccepted(n) ==
  /\ Pending(n) /\ exports[n].via # "text"
  /\ Settle(n, "ok", Ingested(OfRoute(n), exports[n].via))

-----------------------------------------------------------------------------
(* The suite tears both servers down; what they have taken in goes on.     *)
StopServers ==
  /\ standing # {}
  /\ standing' = {}
  /\ UNCHANGED <<offered, exports, captured, accepted>>

(* A scenario starts over, with exports of the last one under way.         *)
ResetCollector ==
  /\ captured # {}
  /\ captured' = {} /\ accepted' = {}
  /\ UNCHANGED <<offered, standing, exports>>

-----------------------------------------------------------------------------
(* Where findCanaryLeakage looks: a list is searched as its JSON; of a     *)
(* metric only the attributes of its point.                                *)
Searched == {"name", "attribute", "key", "list value", "resource"}

(* One leak per surface, key and value; a span's or a metric's with the    *)
(* name it came with, a resource's without.                                *)
findCanaryLeakage ==
  {[surface |-> IF c.spot = "resource" THEN "resource" ELSE c.signal,
    emitter |-> IF c.spot = "resource" THEN "any" ELSE c.run, spot |-> c.spot] :
     c \in {k \in captured : k.spot \in Searched /\ (k.signal = "metric" => k.spot # "name")}}

CollectorInit ==
  /\ \E f, g \in Items : offered = {f, g}
  /\ standing = {"http", "grpc"} /\ exports = <<>> /\ captured = {}
  /\ accepted = {}

CollectorNext ==
  \/ \E via \in Encodings, route \in Signals \cup {"log"}, frames \in SeqOf(offered, 2) :
       Len(frames) > 0 /\ Export(via, route, frames)
  \/ \E n \in DOMAIN exports :
       Again(n) \/ HandleRefused(n) \/ HandleGrpcRefused(n) \/ HandleAccepted(n)
  \/ StopServers \/ ResetCollector

CollectorSpec == CollectorInit /\ [][CollectorNext]_collectorVars

-----------------------------------------------------------------------------
(* Exports something may be kept of.                                       *)
Leaving ==
  {n \in DOMAIN exports :
     \/ exports[n].answer = "ok"
     \/ exports[n].via = "grpc" /\ Len(exports[n].frames) > 1 /\ exports[n].answer = "invalid"}

(* Kept out of the search by the code as it is.                            *)
Unseen(frame, via) ==
  \/ frame.spot \in {"kvlist value", "bytes value"}
  \/ frame.signal = "metric" /\ frame.spot \in {"name", "resource", "second point", "description"}
  \/ frame.shape = "no points" \/ (frame.shape = "histogram" /\ via # "json")

(* "this method inspects what the host's OTLP exporter actually shipped":  *)
(* an export the collector answered with success, whatever its encoding    *)
(* and whatever became of others, is found; what is found was sent; and a  *)
(* refused export leaves nothing, but for the frames of a gRPC one before  *)
(* the one refused.                                                        *)
CanaryIsFound ==
  /\ \A a \in accepted :
       LET frame == a[1] via == a[2] IN
       \/ Unseen(frame, via)
       \/ \E leak \in findCanaryLeakage :
            /\ leak.surface = IF frame.spot = "resource" THEN "resource" ELSE frame.signal
            /\ leak.emitter \in {"any", frame.run} /\ leak.spot = frame.spot
  /\ \A c \in captured :
       \E n \in Leaving : \E f \in Range(OfRoute(n)) : c = Kept(f, exports[n].via)
  /\ \A leak \in findCanaryLeakage :
       \E n \in Leaving : \E f \in Range(exports[n].frames) :
         f.spot = leak.spot /\ leak.emitter \in {"any", f.run}
=============================================================================
