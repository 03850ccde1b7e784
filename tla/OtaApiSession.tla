--------------------------- MODULE OtaApiSession ---------------------------
(***************************************************************************)
(* A firmware update over the bridge's API: the client (the add-on), the   *)
(* WebSocket task that serves it (bridge_api_proto_ws.cpp), the bridge's   *)
(* job (api_ota_* and emit_ota_events_ in esp_tree_bridge.cpp) and the OTA *)
(* manager as the two use it (bridge_ota_manager.cpp).                     *)
(*                                                                         *)
(* The WebSocket task and the bridge's loop are threads.  The job has no   *)
(* lock, the request state of the WebSocket has one that is taken again    *)
(* for every chunk, and the manager gives its own up while it sends.  The  *)
(* leaf accepts, reports gaps and completes (module OtaTransfer has the    *)
(* radio side).  Statuses other than the last one tell the client nothing  *)
(* it acts on and are left out.                                            *)
(***************************************************************************)
EXTENDS Integers, Sequences, FiniteSets, SequencesExt

CONSTANT Scenarios  \* the situations looked at: one is chosen at the start

Scenario ==
  [perInc : Nat \ {0},  \* chunks of an increment
   incs : Nat \ {0},    \* increments of the file
   batch : Nat \ {0},   \* ota_max_chunks_per_batch
   prompt : BOOLEAN,    \* whether a leaf takes longer to answer than the WebSocket task to book a chunk
   start : Nat,         \* bound: jobs
   gap : Nat,           \* bound: reports of gaps
   fail : Nat,          \* bound: transfers that fail on the radio side
   abort : Nat,         \* bound: jobs the client aborts
   drop : Nat]          \* bound: connections lost

ASSUME ApiAssumption == \A i \in DOMAIN Scenarios : Scenarios[i] \in Scenario

VARIABLES
  mgr,     \* ESPNowOTAManager
  job,     \* ota_job_state_, ota_job_id_, ota_manager_prev_public_state_, ota_last_requested_sequences_, ...
  cb,      \* ota_transport_callbacks_ # nullptr
  ws,      \* connected, authenticated, ota_chunk_request_id, ota_pending_sequences
  task,    \* where the WebSocket task is
  round,   \* where the bridge's loop is
  sock,    \* whether the connection is alive
  down,    \* messages to the client
  up,      \* messages to the bridge
  client,  \* the OTA job of the add-on
  hits     \* the scenario, and faults so far

vars == <<mgr, job, cb, ws, task, round, sock, down, up, client, hits>>

sc == Scenarios[hits.sc]

NoRequest == <<0, 0>>

\* reset_
Reset(pub) == [st |-> "IDLE", pub |-> pub, leaf |-> FALSE, inc |-> 0, req |-> {}, sent |-> {}, queue |-> <<>>]

Waiting == [at |-> "read", left |-> <<>>, job |-> 0]

Init ==
  /\ mgr = Reset("IDLE") /\ cb = TRUE /\ task = Waiting /\ sock = TRUE
  /\ job = [st |-> "IDLE", id |-> 0, prev |-> "", last |-> {}, count |-> 0]
  /\ ws = [auth |-> TRUE, rid |-> NoRequest, pend |-> {}]
  /\ round = [at |-> "drain", chunk |-> 0] /\ down = <<>> /\ up = <<>>
  /\ client = [st |-> "none", job |-> 0]
  /\ \E x \in DOMAIN Scenarios : hits = [sc |-> x, start |-> 0, gap |-> 0, fail |-> 0, abort |-> 0, drop |-> 0]

Chunks == 0 .. sc.incs * sc.perInc - 1

\* increment_start_seq to increment_end_seq
IncChunks(i) == i * sc.perInc .. (i + 1) * sc.perInc - 1

\* is_busy
Busy(m) == m.st # "IDLE"

\* send_binary: what a dead connection takes is lost.
Say(msgs) == down' = IF sock THEN down \o msgs ELSE down

Msg(kind, id, rid, seqs) == [kind |-> kind, job |-> id, rid |-> rid, seqs |-> seqs]

-----------------------------------------------------------------------------
\* The job.

\* on_ota_chunk_request under a new id: the new job, ws and message
Requested(j, seqs) ==
  LET n == [j EXCEPT !.last = seqs, !.count = @ + 1]
  IN [job |-> n, ws |-> IF ws.auth THEN [ws EXCEPT !.rid = <<n.id, n.count>>, !.pend = seqs] ELSE ws,
      msg |-> IF ws.auth THEN <<Msg("request", n.id, <<n.id, n.count>>, seqs)>> ELSE <<>>]

\* api_ota_resend_chunk_request
Resend ==
  IF job.st = "TRANSFERRING" /\ cb /\ mgr.req # {}
    THEN LET r == Requested(job, mgr.req) IN job' = r.job /\ ws' = r.ws /\ Say(r.msg)
    ELSE /\ job' = IF job.st = "TRANSFERRING" /\ cb THEN [job EXCEPT !.last = {}] ELSE job
         /\ UNCHANGED <<ws, down>>

\* api_ota_abort
ApiAbort(id) ==
  IF job.st = "IDLE" \/ id # job.id
    THEN UNCHANGED <<job, mgr>>
    ELSE /\ job' = [job EXCEPT !.st = "IDLE"]
         /\ mgr' = IF Busy(mgr) THEN Reset("FAIL") ELSE mgr

\* Mutant: a transfer that fails before the leaf accepts it is not noticed.
EmitWaitingOn ==
  IF Busy(mgr) /\ mgr.pub = "TRANSFERRING" /\ job.prev # "TRANSFERRING"
    THEN round' = [round EXCEPT !.at = "accept"] /\ UNCHANGED <<job, ws, down>>
    ELSE /\ job' = [job EXCEPT !.prev = mgr.pub]
         /\ round' = [round EXCEPT !.at = "drain"]
         /\ UNCHANGED <<ws, down>>

\* emit_ota_events_ while the job waits for the leaf
EmitWaiting ==
  CASE Busy(mgr) /\ mgr.pub = "TRANSFERRING" /\ job.prev # "TRANSFERRING" ->
         /\ round' = [round EXCEPT !.at = "accept"]
         /\ UNCHANGED <<job, ws, down>>
    [] ~Busy(mgr) ->
         /\ job' = [job EXCEPT !.st = "IDLE", !.prev = "", !.last = {}]
         /\ Say(IF ws.auth THEN <<Msg("failed", job.id, NoRequest, {})>> ELSE <<>>)
         /\ round' = [round EXCEPT !.at = "drain"]
         /\ UNCHANGED ws
    [] OTHER ->
         /\ job' = [job EXCEPT !.prev = mgr.pub]
         /\ round' = [round EXCEPT !.at = "drain"]
         /\ UNCHANGED <<ws, down>>

\* The writes of that branch come after its tests; the WebSocket task may run between.
EmitAccept ==
  /\ round.at = "accept"
  /\ LET r == Requested([job EXCEPT !.st = "TRANSFERRING", !.prev = "TRANSFERRING"], mgr.req)
     IN /\ job' = r.job /\ ws' = r.ws
        /\ Say(IF ws.auth THEN <<Msg("accepted", job.id, NoRequest, {})>> \o r.msg ELSE <<>>)
  /\ round' = [round EXCEPT !.at = "drain"]
  /\ UNCHANGED <<mgr, cb, task, sock, up, client, hits>>

\* Mutant: the last requested sequences are kept when nothing is wanted any more.
EmitTransferringKeep ==
  LET news == mgr.pub \in {"SUCCESS", "FAIL"} /\ job.prev # mgr.pub
      ask == mgr.req # {} /\ (job.last = {} \/ ~(mgr.req \subseteq job.last))
  IN
  /\ round' = [round EXCEPT !.at = "drain"]
  /\ CASE news ->
            /\ job' = [job EXCEPT !.st = IF mgr.pub = "SUCCESS" THEN "SUCCESS" ELSE "FAILED",
                                  !.prev = mgr.pub, !.last = {}]
            /\ Say(IF ws.auth THEN <<Msg(IF mgr.pub = "SUCCESS" THEN "success" ELSE "failed", job.id, NoRequest, {})>> ELSE <<>>)
            /\ UNCHANGED ws
       [] ~news /\ ~Busy(mgr) ->
            /\ job' = [job EXCEPT !.st = "IDLE", !.prev = "", !.last = {}]
            /\ UNCHANGED <<ws, down>>
       [] ~news /\ Busy(mgr) /\ ask ->
            LET r == Requested([job EXCEPT !.prev = mgr.pub], mgr.req)
            IN job' = r.job /\ ws' = r.ws /\ Say(r.msg)
       [] OTHER ->
            /\ job' = [job EXCEPT !.prev = mgr.pub]
            /\ UNCHANGED <<ws, down>>

\* emit_ota_events_ while chunks are transferred
EmitTransferring ==
  LET news == mgr.pub \in {"SUCCESS", "FAIL"} /\ job.prev # mgr.pub
      ask == mgr.req # {} /\ (job.last = {} \/ ~(mgr.req \subseteq job.last))
  IN
  /\ round' = [round EXCEPT !.at = "drain"]
  /\ CASE news ->
            /\ job' = [job EXCEPT !.st = IF mgr.pub = "SUCCESS" THEN "SUCCESS" ELSE "FAILED",
                                  !.prev = mgr.pub, !.last = {}]
            /\ Say(IF ws.auth THEN <<Msg(IF mgr.pub = "SUCCESS" THEN "success" ELSE "failed", job.id, NoRequest, {})>> ELSE <<>>)
            /\ UNCHANGED ws
       [] ~news /\ ~Busy(mgr) ->
            /\ job' = [job EXCEPT !.st = "IDLE", !.prev = "", !.last = {}]
            /\ UNCHANGED <<ws, down>>
       [] ~news /\ Busy(mgr) /\ ask ->
            LET r == Requested([job EXCEPT !.prev = mgr.pub], mgr.req)
            IN job' = r.job /\ ws' = r.ws /\ Say(r.msg)
       [] OTHER ->
            /\ job' = [job EXCEPT !.prev = mgr.pub, !.last = IF mgr.req = {} THEN {} ELSE @]
            /\ UNCHANGED <<ws, down>>

\* emit_ota_events_
Emit ==
  /\ round.at = "emit"
  /\ CASE cb /\ job.st = "WAITING" -> EmitWaiting
       [] cb /\ job.st = "TRANSFERRING" -> EmitTransferring
       [] OTHER -> round' = [round EXCEPT !.at = "drain"] /\ UNCHANGED <<job, ws, down>>
  /\ UNCHANGED <<mgr, cb, task, sock, up, client, hits>>

-----------------------------------------------------------------------------
\* The loop of the bridge: frames of the leaf, then the manager, then the events.

ManagerOnly == UNCHANGED <<job, cb, ws, task, sock, down, up, client>>

\* on_file_ack: ACCEPT
Accept ==
  /\ round.at = "drain" /\ mgr.st = "ANNOUNCING"
  /\ mgr' = [mgr EXCEPT !.st = "BLASTING", !.pub = "TRANSFERRING", !.req = IncChunks(0)]
  /\ round' = [round EXCEPT !.at = "pump"]
  /\ UNCHANGED hits /\ ManagerOnly

\* handle_gaps_ack_
Gaps ==
  /\ round.at = "drain" /\ mgr.st = "WAITING_GAPS" /\ mgr.leaf /\ mgr.pub # "START_RECEIVED"
  /\ sc.prompt => task.at # "erase"
  /\ \/ /\ mgr.inc = sc.incs - 1
        /\ mgr' = [mgr EXCEPT !.st = "ENDING", !.pub = "VERIFYING"] /\ UNCHANGED hits
     \/ /\ mgr.inc < sc.incs - 1
        /\ mgr' = [mgr EXCEPT !.st = "BLASTING", !.inc = @ + 1, !.req = IncChunks(mgr.inc + 1), !.sent = {}]
        /\ UNCHANGED hits
     \/ /\ hits.gap < sc.gap /\ hits' = [hits EXCEPT !.gap = @ + 1]
        /\ \E gap \in SUBSET IncChunks(mgr.inc) \ {{}} :
             mgr' = [mgr EXCEPT !.st = "BLASTING", !.req = gap, !.sent = {}]
  /\ round' = [round EXCEPT !.at = "pump"]
  /\ ManagerOnly

\* handle_complete_
Complete ==
  /\ round.at = "drain" /\ mgr.st = "ENDING"
  /\ mgr' = Reset("SUCCESS")
  /\ round' = [round EXCEPT !.at = "pump"]
  /\ UNCHANGED hits /\ ManagerOnly

\* No chunk comes from the source for ESPNOW_RADIO_SILENCE_ABORT_MS, which is many rounds of
\* the loop: nothing is on its way, and emit_ota_events_ has had its turn.
SourceSilent ==
  /\ mgr.st = "BLASTING" /\ mgr.queue = <<>> /\ mgr.req # {}
  /\ up = <<>> /\ down = <<>> /\ task.at = "read"
  /\ ~(cb /\ job.st = "WAITING" /\ job.prev # "TRANSFERRING")
  /\ ~(cb /\ job.st = "TRANSFERRING" /\ (job.last = {} \/ ~(mgr.req \subseteq job.last)))

\* The manager waits for the gaps of a transfer that the leaf has not accepted.
LeafSilent == mgr.st = "WAITING_GAPS" /\ mgr.pub = "START_RECEIVED"

\* handle_reject_, handle_abort_ack_, a failed send, a timeout, or a source that is silent
Fail ==
  /\ round.at = "drain" /\ Busy(mgr)
  /\ IF SourceSilent \/ LeafSilent THEN UNCHANGED hits
       ELSE hits.fail < sc.fail /\ hits' = [hits EXCEPT !.fail = @ + 1]
  /\ mgr' = Reset("FAIL")
  /\ round' = [round EXCEPT !.at = "pump"]
  /\ ManagerOnly

Idle ==
  /\ round.at = "drain"
  /\ round' = [round EXCEPT !.at = "pump"]
  /\ UNCHANGED <<mgr, hits>> /\ ManagerOnly

\* loop() of the manager and the first part of pump_queued_chunks_, under the lock
Pump ==
  /\ round.at = "pump"
  /\ mgr' = IF Busy(mgr) /\ ~mgr.leaf THEN Reset("FAIL") ELSE mgr
  /\ round' =
       CASE mgr.st = "BLASTING" /\ mgr.queue # <<>> -> [at |-> "sending", chunk |-> Head(mgr.queue)]
         [] mgr.st = "BLASTING" /\ mgr.queue = <<>> /\ mgr.req = {} /\ mgr.sent # {} -> [round EXCEPT !.at = "blast"]
         [] OTHER -> [round EXCEPT !.at = "emit"]
  /\ UNCHANGED hits /\ ManagerOnly

\* The second part, when the lock is taken again.  The chunk it refers to may be gone; the
\* sequence number read is then the old one or any other.
PumpSent ==
  /\ round.at = "sending"
  /\ IF mgr.queue # <<>>
       THEN mgr' = [mgr EXCEPT !.sent = @ \cup {round.chunk}, !.queue = Tail(@)]
       ELSE \E chunk \in Chunks : mgr' = [mgr EXCEPT !.sent = @ \cup {chunk}]
  /\ round' = [round EXCEPT !.at = IF mgr'.queue = <<>> /\ mgr.req = {} THEN "blast" ELSE "emit"]
  /\ UNCHANGED hits /\ ManagerOnly

\* send_blast_complete_: after reset_ there is no leaf to send to.
Blast ==
  /\ round.at = "blast"
  /\ mgr' = IF mgr.leaf THEN mgr ELSE Reset("FAIL")
  /\ round' = [round EXCEPT !.at = IF mgr.leaf THEN "blasted" ELSE "emit"]
  /\ UNCHANGED hits /\ ManagerOnly

\* state_ = WAITING_GAPS, without the lock
Blasted ==
  /\ round.at = "blasted"
  /\ mgr' = [mgr EXCEPT !.st = "WAITING_GAPS"]
  /\ round' = [round EXCEPT !.at = "emit"]
  /\ UNCHANGED hits /\ ManagerOnly

-----------------------------------------------------------------------------
\* The WebSocket task.

Read(kind) == task.at = "read" /\ ws.auth /\ up # <<>> /\ Head(up).kind = kind /\ up' = Tail(up)

\* start_transfer
StartTransfer == [Reset("START_RECEIVED") EXCEPT !.st = "ANNOUNCING", !.leaf = TRUE]

\* handle_ota_start, api_ota_start up to start_transfer
OtaStart ==
  /\ Read("start")
  /\ IF Busy(mgr)
       THEN Say(<<Msg("busy", 0, NoRequest, {})>>) /\ UNCHANGED <<mgr, task>>
       ELSE /\ mgr' = StartTransfer
            /\ task' = [task EXCEPT !.at = "started"]
            /\ UNCHANGED down
  /\ UNCHANGED <<job, cb, ws, round, sock, client, hits>>

\* The rest of api_ota_start
OtaStarted ==
  /\ task.at = "started"
  /\ job' = [job EXCEPT !.st = "WAITING", !.id = @ + 1, !.last = {}, !.count = 0]
  /\ task' = Waiting
  /\ UNCHANGED <<mgr, cb, ws, round, sock, down, up, client, hits>>

\* handle_ota_chunk_batch
ChunkBatch ==
  /\ Read("batch")
  /\ LET b == Head(up) IN
     CASE job.st = "IDLE" \/ b.job # job.id ->
            Say(<<Msg("inactive", b.job, NoRequest, {})>>) /\ UNCHANGED <<task, job, ws>>
       [] job.st # "IDLE" /\ b.job = job.id /\ b.rid # ws.rid -> Resend /\ UNCHANGED task
       [] OTHER ->
            /\ task' = [at |-> "inject", left |-> SetToSortSeq(b.seqs, <), job |-> b.job]
            /\ UNCHANGED <<job, ws, down>>
  /\ UNCHANGED <<mgr, cb, round, sock, client, hits>>

\* on_source_chunk takes the chunk
Wanted(s) == mgr.st = "BLASTING" /\ s \in mgr.req

\* A chunk that is pending, and api_ota_inject_chunk takes it.
Inject ==
  /\ task.at = "inject"
  /\ LET s == Head(task.left) IN
     IF s \in ws.pend /\ job.st = "TRANSFERRING" /\ Wanted(s)
       THEN /\ mgr' = [mgr EXCEPT !.queue = Append(@, s), !.req = @ \ {s}]
            /\ task' = [task EXCEPT !.at = "erase"]
            /\ UNCHANGED <<job, down>>
       ELSE /\ ApiAbort(task.job)
            /\ Say(<<Msg("rejected", task.job, NoRequest, {})>>)
            /\ task' = Waiting
  /\ UNCHANGED <<cb, ws, round, sock, up, client, hits>>

\* Mutant: a taken chunk settles the whole request.
EraseAll ==
  /\ task.at = "erase"
  /\ ws' = [ws EXCEPT !.pend = {}, !.rid = NoRequest]
  /\ task' = IF Len(task.left) = 1 THEN Waiting ELSE [task EXCEPT !.at = "inject", !.left = Tail(@)]
  /\ UNCHANGED <<mgr, job, cb, round, sock, down, up, client, hits>>

\* The lock is taken again.
Erase ==
  /\ task.at = "erase"
  /\ LET pend == ws.pend \ {Head(task.left)}
     IN ws' = [ws EXCEPT !.pend = pend, !.rid = IF pend = {} THEN NoRequest ELSE @]
  /\ task' = IF Len(task.left) = 1 THEN Waiting ELSE [task EXCEPT !.at = "inject", !.left = Tail(@)]
  /\ UNCHANGED <<mgr, job, cb, round, sock, down, up, client, hits>>

\* handle_ota_abort
OtaAbort ==
  /\ Read("abort")
  /\ ApiAbort(Head(up).job)
  /\ Say(<<Msg("aborted", Head(up).job, NoRequest, {})>>)
  /\ UNCHANGED <<cb, ws, task, round, sock, client, hits>>

\* finish_session, when reading fails; the callbacks go in a second step.
FinishSession ==
  /\ ~sock /\ ws.auth /\ task.at = "read"
  /\ ws' = [auth |-> FALSE, rid |-> NoRequest, pend |-> {}]
  /\ task' = [task EXCEPT !.at = "finish"]
  /\ UNCHANGED <<mgr, job, cb, round, sock, down, up, client, hits>>

\* clear_ota_transport_callbacks
ClearCallbacks ==
  /\ task.at = "finish"
  /\ cb' = FALSE /\ task' = Waiting
  /\ UNCHANGED <<mgr, job, ws, round, sock, down, up, client, hits>>

\* set_ota_transport_callbacks
SetCallbacks ==
  /\ cb' = TRUE
  /\ job' = IF job.st = "IDLE" THEN job ELSE [job EXCEPT !.prev = ""]

\* run_socket_session and a good AUTH_RESPONSE
Connect ==
  /\ ~sock /\ ~ws.auth /\ task.at = "read"
  /\ sock' = TRUE /\ ws' = [ws EXCEPT !.auth = TRUE]
  /\ SetCallbacks
  /\ UNCHANGED <<mgr, task, round, down, up, client, hits>>

-----------------------------------------------------------------------------
\* The client.

Start ==
  /\ client.st = "none" /\ sock /\ hits.start < sc.start
  /\ hits' = [hits EXCEPT !.start = @ + 1]
  /\ client' = [client EXCEPT !.st = "asked"] /\ up' = Append(up, Msg("start", 0, NoRequest, {}))
  /\ UNCHANGED <<mgr, job, cb, ws, task, round, sock, down>>

\* send_chunks: as many batches as it takes
Batches(m) ==
  LET s == SetToSortSeq(m.seqs, <)
      n == (Len(s) + sc.batch - 1) \div sc.batch
      Part(i) == ToSet(SubSeq(s, (i - 1) * sc.batch + 1, IF i * sc.batch < Len(s) THEN i * sc.batch ELSE Len(s)))
  IN [i \in 1 .. n |-> Msg("batch", client.job, m.rid, Part(i))]

Hear ==
  /\ down # <<>> /\ down' = Tail(down)
  /\ LET m == Head(down) IN
     /\ client' =
          CASE m.kind = "accepted" /\ client.st = "asked" -> [client EXCEPT !.st = "on", !.job = m.job]
            [] m.kind = "busy" /\ client.st = "asked" -> [client EXCEPT !.st = "none"]
            [] m.kind = "failed" /\ client.st \in {"asked", "on"} -> [client EXCEPT !.st = "none"]
            [] m.kind = "success" /\ client.st = "on" -> [client EXCEPT !.st = "none"]
            [] m.kind = "aborted" /\ client.st = "stop" -> [client EXCEPT !.st = "none"]
            [] m.kind = "rejected" /\ client.st = "on" -> [client EXCEPT !.st = "none"]
            [] OTHER -> client
     /\ up' = IF m.kind = "request" /\ client.st = "on" /\ sock THEN up \o Batches(m) ELSE up
  /\ UNCHANGED <<mgr, job, cb, ws, task, round, sock, hits>>

Abort ==
  /\ client.st = "on" /\ sock /\ hits.abort < sc.abort
  /\ hits' = [hits EXCEPT !.abort = @ + 1]
  /\ client' = [client EXCEPT !.st = "stop"] /\ up' = Append(up, Msg("abort", client.job, NoRequest, {}))
  /\ UNCHANGED <<mgr, job, cb, ws, task, round, sock, down>>

\* The connection is gone with all that was on its way, and the add-on gives the job up.
Drop ==
  /\ sock /\ hits.drop < sc.drop
  /\ hits' = [hits EXCEPT !.drop = @ + 1]
  /\ sock' = FALSE /\ down' = <<>> /\ up' = <<>> /\ client' = [client EXCEPT !.st = "none"]
  /\ UNCHANGED <<mgr, job, cb, ws, task, round>>

Loop == Accept \/ Gaps \/ Complete \/ Fail \/ Idle \/ Pump \/ PumpSent \/ Blast \/ Blasted \/ Emit \/ EmitAccept

WsTask ==
  OtaStart \/ OtaStarted \/ ChunkBatch \/ Inject \/ Erase \/ OtaAbort \/ FinishSession \/ ClearCallbacks

Next == Loop \/ WsTask \/ Connect \/ Start \/ Hear \/ Abort \/ Drop

Spec == Init /\ [][Next]_vars

\* Both threads run, the client reads, the leaf answers, and silence ends a transfer.
Fairness ==
  /\ WF_vars(Loop) /\ WF_vars(WsTask) /\ WF_vars(Hear)
  /\ SF_vars(Accept) /\ SF_vars(Gaps) /\ SF_vars(Complete) /\ SF_vars(Fail /\ UNCHANGED hits)

FairSpec == Spec /\ Fairness

-----------------------------------------------------------------------------
TypeOK ==
  /\ mgr.st \in {"IDLE", "ANNOUNCING", "BLASTING", "WAITING_GAPS", "ENDING"}
  /\ mgr.inc \in 0 .. sc.incs - 1 /\ mgr.req \subseteq IncChunks(mgr.inc) /\ mgr.sent \subseteq Chunks
  /\ job.st \in {"IDLE", "WAITING", "TRANSFERRING", "SUCCESS", "FAILED"}
  /\ ws.pend \subseteq Chunks /\ (~ws.auth => ws.pend = {})
  /\ ws.rid # NoRequest <=> ws.pend # {}

\* The WebSocket task ends no running transfer that the client has not aborted: the answers
\* to the bridge's own requests are taken, chunk by chunk, whatever the loop does meanwhile,
\* if a leaf does not report gaps before the last chunk is booked.
AnswersTaken ==
  [][sc.prompt /\ round' = round /\ Busy(mgr) /\ client.st # "stop" => Busy(mgr')]_vars

\* Starved: the manager gives up while it waits for a chunk that nobody has been asked for,
\* or whose request or answer was dropped.
Starves == mgr.st = "BLASTING" /\ mgr'.pub = "FAIL" /\ round.at = "drain" /\ round' # round /\ hits' = hits

\* While the connection lasts and no job was aborted or failed, no transfer starves.
NeverStarved == [][Starves => hits.drop > 0 \/ hits.abort > 0 \/ hits.fail > 0]_vars

\* Every job ends for the client: it hears of a result, or the connection is lost.
JobEnds == client.st # "none" ~> client.st = "none"

-----------------------------------------------------------------------------
\* Not true of the code, although a document, a comment or the design says so: section 4
\* of README.md tells what happens instead.

\* The answers to the bridge's requests are taken, however slow the WebSocket task is.
AnswersAlwaysTaken == [][round' = round /\ Busy(mgr) /\ client.st # "stop" => Busy(mgr')]_vars

\* No transfer starves, also not the one after an aborted or failed job.
NeverStarvedAgain == [][Starves => hits.drop > 0]_vars
=============================================================================
