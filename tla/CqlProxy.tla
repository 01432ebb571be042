------------------------------ MODULE CqlProxy ------------------------------
(***************************************************************************)
(* The CQL proxy in front of DualWriter: one handle_connection coroutine   *)
(* per client, all on the single io_context thread.  A coroutine gives up  *)
(* the thread only while it waits for a socket; write() never does, so a   *)
(* coroutine inside write() (pc # "idle") holds up all the others.  A      *)
(* statement whose write() fails on the source is forwarded to the source  *)
(* as the client sent it, and so is everything the proxy does not          *)
(* recognise as a write.                                                   *)
(***************************************************************************)
EXTENDS DualWriter

CONSTANTS
  Conns,   \* client connections
  How      \* How[w] says how the client sends w: "query", "execute" or "batch"

ASSUME HowAssumption == How \in [Writes -> {"query", "execute", "batch"}]

VARIABLES
  conn,        \* where the coroutine of each connection is
  req,         \* the statement each one is serving
  prepared,    \* prepared_stmts of each connection
  known,       \* statements prepared at the source server, by any connection
  requested,   \* history: statements clients have sent
  strangers,   \* history: those executed on a connection that did not prepare them
  forwarded,   \* history: statements sent to the source as raw frames
  landed,      \* history: raw frames the source answered with a RESULT
  confirmed    \* history: statements whose client received a RESULT

proxyVars == <<conn, req, prepared, known, requested, strangers, forwarded, landed, confirmed>>
allVars == <<vars, proxyVars>>

(* The io_context thread is not inside write(). *)
ThreadFree == pc = "idle"

Goto(c, p) == conn' = [conn EXCEPT ![c] = p]

ProxyInit ==
  /\ Init
  /\ conn = [c \in Conns |-> "accepted"]
  /\ req = [c \in Conns |-> NoWrite]
  /\ prepared = [c \in Conns |-> {}]
  /\ known = {} /\ requested = {} /\ strangers = {} /\ forwarded = {} /\ landed = {} /\ confirmed = {}

(* A new connection gets its own connection to the source; an exception ends
   the coroutine, which co_spawn detached. *)
ConnectSource(c) ==
  /\ conn[c] = "accepted" /\ ThreadFree
  /\ Goto(c, "reading") \/ Goto(c, "closed")
  /\ UNCHANGED <<vars, req, prepared, known, requested, strangers, forwarded, landed, confirmed>>

(* The client closes its connection. *)
ClientClose(c) ==
  /\ conn[c] = "reading" /\ ThreadFree
  /\ Goto(c, "closed")
  /\ UNCHANGED <<vars, req, prepared, known, requested, strangers, forwarded, landed, confirmed>>

(* OP_PREPARE is forwarded; a RESULT_PREPARED answer is remembered in this
   connection's map, and the server knows the statement for all of them. *)
Prepare(c, w) ==
  /\ conn[c] = "reading" /\ ThreadFree
  /\ How[w] = "execute" /\ w \notin prepared[c]
  /\ Goto(c, "preparing")
  /\ req' = [req EXCEPT ![c] = w]
  /\ UNCHANGED <<vars, prepared, known, requested, strangers, forwarded, landed, confirmed>>

PrepareAnswer(c) ==
  /\ conn[c] = "preparing" /\ ThreadFree
  /\ \/ /\ prepared' = [prepared EXCEPT ![c] = @ \union {req[c]}]
        /\ known' = known \union {req[c]}
        /\ Goto(c, "reading")
     \/ /\ Goto(c, "reading") \/ Goto(c, "closed")
        /\ UNCHANGED <<prepared, known>>
  /\ UNCHANGED <<vars, req, requested, strangers, forwarded, landed, confirmed>>

(* The text begins with INSERT, UPDATE or DELETE.  A batch is none of these,
   in a frame of its own (OP_BATCH) or as text (BEGIN BATCH). *)
IsWriteQuery(w) == How[w] # "batch"

(* Mutant of Intercepted: prepared statements are not remembered as writes. *)
InterceptedQueries(c, w) == IsWriteQuery(w) /\ How[w] = "query"

(* A frame is a write the proxy sends through the writer: an OP_QUERY, or an
   OP_EXECUTE of a statement this connection prepared. *)
Intercepted(c, w) == IsWriteQuery(w) /\ (How[w] = "execute" => w \in prepared[c])

(* A client sends a statement; prepared ones must be known to the server. *)
Send(c, w) ==
  /\ conn[c] = "reading" /\ ThreadFree
  /\ w \notin requested
  /\ How[w] = "execute" => w \in known
  /\ req' = [req EXCEPT ![c] = w]
  /\ requested' = requested \union {w}
  /\ strangers' = IF How[w] = "execute" /\ w \notin prepared[c] THEN strangers \union {w} ELSE strangers

BeginWrite(c, w) ==
  /\ Send(c, w)
  /\ Intercepted(c, w)
  /\ WriteBegin(w)
  /\ Goto(c, "writing")
  /\ UNCHANGED <<prepared, known, forwarded, landed, confirmed>>

BeginForward(c, w) ==
  /\ Send(c, w)
  /\ ~Intercepted(c, w)
  /\ Goto(c, "forwarding")
  /\ forwarded' = forwarded \union {w}
  /\ UNCHANGED <<vars, prepared, known, landed, confirmed>>

(* Mutants of EndWrite: OK whatever the result, or OK only when both clusters
   have the statement. *)
EndWriteAlwaysOk(c) ==
  /\ conn[c] = "writing"
  /\ WriteReturn
  /\ Goto(c, "replying")
  /\ UNCHANGED <<req, prepared, known, requested, strangers, forwarded, landed, confirmed>>

EndWriteFullySuccessful(c) ==
  /\ conn[c] = "writing"
  /\ WriteReturn
  /\ \/ FullySuccessful /\ Goto(c, "replying") /\ UNCHANGED forwarded
     \/ ~FullySuccessful /\ Goto(c, "forwarding") /\ forwarded' = forwarded \union {req[c]}
  /\ UNCHANGED <<req, prepared, known, requested, strangers, landed, confirmed>>

(* write() returns: a VOID result, or the fallback to the source. *)
EndWrite(c) ==
  /\ conn[c] = "writing"
  /\ WriteReturn
  /\ \/ SourceOk /\ Goto(c, "replying") /\ UNCHANGED forwarded
     \/ ~SourceOk /\ Goto(c, "forwarding") /\ forwarded' = forwarded \union {req[c]}
  /\ UNCHANGED <<req, prepared, known, requested, strangers, landed, confirmed>>

(* The source handles a raw frame while the proxy may be doing anything else:
   it applies it and answers, refuses it with an ERROR, or the connection
   breaks with the frame applied or not. *)
SourceAnswer(c) ==
  /\ conn[c] = "forwarding"
  /\ \/ /\ Goto(c, "replying")
        /\ source' = Apply(source, req[c], "ok")
        /\ landed' = landed \union {req[c]}
     \/ Goto(c, "refusing") /\ UNCHANGED <<source, landed>>
     \/ /\ Goto(c, "closed")
        /\ \E o \in {"lost", "in_doubt"} : source' = Apply(source, req[c], o)
        /\ UNCHANGED landed
  /\ UNCHANGED <<ioVars, stats, failed_writes, retryVars, life, target, history,
                 req, prepared, known, requested, strangers, forwarded, confirmed>>

(* Mutant of Reply: the client waits until the retry queue is empty. *)
ReplyWhenDrained(c) ==
  /\ conn[c] \in {"replying", "refusing"} /\ ThreadFree /\ Pending = {}
  /\ \/ /\ Goto(c, "reading")
        /\ confirmed' = IF conn[c] = "replying" THEN confirmed \union {req[c]} ELSE confirmed
     \/ Goto(c, "closed") /\ UNCHANGED confirmed
  /\ UNCHANGED <<vars, req, prepared, known, requested, strangers, forwarded, landed>>

(* The response goes to the client, or the client has gone. *)
Reply(c) ==
  /\ conn[c] \in {"replying", "refusing"} /\ ThreadFree
  /\ \/ /\ Goto(c, "reading")
        /\ confirmed' = IF conn[c] = "replying" THEN confirmed \union {req[c]} ELSE confirmed
     \/ Goto(c, "closed") /\ UNCHANGED confirmed
  /\ UNCHANGED <<vars, req, prepared, known, requested, strangers, forwarded, landed>>

(* The steps of the writer that no coroutine has to take part in.  The server
   holds the writer, so it is not destroyed. *)
InWrite == \/ FilterGate \/ EnqueueFailedWrite
           \/ \E o \in Outcome : SourceExecute(o) \/ TargetExecute(o)

WriterStep == (InWrite \/ RetryStep) /\ UNCHANGED proxyVars

ProxyNext ==
  \/ \E c \in Conns :
       \/ ConnectSource(c) \/ ClientClose(c) \/ PrepareAnswer(c)
       \/ EndWrite(c) \/ SourceAnswer(c) \/ Reply(c)
       \/ \E w \in Writes : Prepare(c, w) \/ BeginWrite(c, w) \/ BeginForward(c, w)
  \/ WriterStep

(* What the coroutine of a connection does once it can go on. *)
Resume(c) == EndWrite(c) \/ PrepareAnswer(c) \/ Reply(c)

ProxySpec == ProxyInit /\ [][ProxyNext]_allVars

(* The io_context runs the coroutines that can go on in the order in which
   they became ready, so none waits for ever behind the others; execute() ends
   in the driver's request timeout at the latest.  forward_and_proxy has no
   timeout: that the source answers, or breaks the connection, is assumed.
   The retry thread, the clients and every outcome are free. *)
ProxyFairSpec ==
  /\ ProxySpec
  /\ WF_allVars(InWrite /\ UNCHANGED proxyVars)
  /\ \A c \in Conns : SF_allVars(Resume(c)) /\ WF_allVars(SourceAnswer(c))

-----------------------------------------------------------------------------
ProxyTypeOK ==
  /\ TypeOK
  /\ conn \in [Conns -> {"accepted", "reading", "preparing", "writing", "forwarding",
                         "replying", "refusing", "closed"}]
  /\ req \in [Conns -> Writes \union {NoWrite}]
  /\ prepared \in [Conns -> SUBSET Writes]
  /\ known \subseteq Writes
  /\ requested \subseteq Writes /\ strangers \subseteq Writes /\ forwarded \subseteq Writes
  /\ landed \subseteq Writes /\ confirmed \subseteq Writes

(* A RESULT reaches the client only for a statement the source acknowledged,
   on the writer's connection or on the client's own. *)
ConfirmedOnSource == confirmed \subseteq accepted \union landed

(* A statement the source acknowledged to the writer is not forwarded to the
   source as well, whatever happened to its shadow write. *)
NoDoubleSourceWrite == accepted \intersect forwarded = {}

(* The statements whose OK says nothing about the target: batches, executions
   on a connection that did not prepare the statement (prepared_stmts is kept
   per connection, the server's cache is not), and what the fallback got
   through to the source after write() had failed there. *)
SourceOnly == {w \in Writes : How[w] = "batch"} \union strangers \union (submitted \ accepted)

(* There is no other gap: any other statement a client was told OK for is on
   the target, in the retry queue, given up or exempt.  The reply leaves after
   the shadow write, because write_dual_async waits for it, although README.md
   and writer.cpp call it fire-and-forget. *)
NoOtherGap ==
  confirmed \ SourceOnly \subseteq acked \union abandoned \union Pending \union Blacklisted

(* Every request is answered or its connection closed, although write() keeps
   the only thread from all other clients: each coroutine that waits for the
   thread gets it. *)
Waiting(c) == conn[c] \in {"preparing", "writing", "forwarding", "replying", "refusing"}

RequestsAnswered == \A c \in Conns : Waiting(c) ~> ~Waiting(c)

(* "INSERT successful - dual-written to GCP + AWS!" (README.md:412): a
   confirmed statement is mirrored, about to be, or exempt. *)
ConfirmedIsDualWritten ==
  confirmed \ Blacklisted \subseteq acked \union abandoned \union Pending

-----------------------------------------------------------------------------
(* Inductive invariant, together with the writer's IInv. *)

(* What write() is about to return says whether the source acknowledged. *)
ResultInv ==
  /\ pc = "enqueue" => result = "shadow_failed"
  /\ pc = "return" => (SourceOk <=> cur \in accepted)

(* One coroutine at most is inside write(), with the writer's statement. *)
ThreadInv ==
  /\ life = "up"
  /\ \A c \in Conns : conn[c] = "writing" => pc # "idle" /\ req[c] = cur
  /\ \A c, d \in Conns : conn[c] = "writing" /\ conn[d] = "writing" => c = d

(* A statement is sent once, goes one of the two ways first, and is confirmed
   when it has gone all of it. *)
RequestInv ==
  /\ submitted \union forwarded \union confirmed \subseteq requested
  /\ pc # "idle" => cur \notin forwarded \union confirmed
  /\ \A c \in Conns :
       /\ conn[c] = "preparing" => req[c] # NoWrite
       /\ conn[c] \in {"forwarding", "replying", "refusing"} => req[c] \in requested
       /\ conn[c] = "replying" => req[c] \in accepted \union landed

(* A raw frame that may land carries a statement of SourceOnly. *)
GapInv ==
  /\ landed \subseteq forwarded /\ forwarded \subseteq SourceOnly
  /\ \A c \in Conns : conn[c] = "forwarding" => req[c] \in forwarded

ProxyInv == /\ ProxyTypeOK /\ IInv /\ ResultInv /\ ThreadInv /\ RequestInv /\ GapInv
            /\ ConfirmedOnSource /\ NoDoubleSourceWrite
=============================================================================
