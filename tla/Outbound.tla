------------------------------ MODULE Outbound ------------------------------
(***************************************************************************)
(* Tasks sent to a URL: Server.SendTask (pkg/grpcserver/server.go),        *)
(* Core.Route and Core.Send (internal/core/core.go), the HTTP and NATS     *)
(* transports (internal/adapter), and the NATS transport of the daemon     *)
(* that is the target, with its shutdown.                                  *)
(*                                                                         *)
(* The source of every outgoing envelope is the daemon itself, so all the  *)
(* calls share one entry of the rate limiter.  NATS has no answer: once    *)
(* Publish has returned the message may still be lost.                     *)
(***************************************************************************)
EXTENDS Integers, FiniteSets, Sequences

CONSTANTS
    Requests,
    Target,      \* Target[r]: "nats" or "http"
    Denied,      \* requests for a skill that no ACL rule lets the daemon use
    Policies,    \* what is configured: a subset of {"acl", "rate", "audit"}
    OwnBurst,    \* tokens of the limiter
    MaxRefills,  \* bound: tokens that come back
    InCap        \* capacity of inCh (256 in the code)

VARIABLES
    call,      \* call[r]: where SendTask(r) is; see Phases
    ownTokens, \* tokens of the daemon's own limiter
    refills,   \* tokens that have come back
    auditLog,  \* auditLog[r]: what Log has made of its calls for r's envelope, in order
    conn,      \* the sender's NATS connection is open
    published, \* requests handed to the NATS client
    wire,      \* messages on their way to the target's subscription
    records,   \* requests with a task in the engine
    callback,  \* the message handleMessage is running for, or none
    inCh,      \* messages in the target's inbound channel
    closing,   \* the target's Close: "open", "unsubscribed", "disconnected", "closed"
    panicked   \* the target sent on its closed channel

outboundVars == <<call, ownTokens, refills, auditLog, conn, published, wire, records, callback, inCh,
          closing, panicked>>

Phases == {"idle", "acl", "rate", "allowed", "dispatch", "routed",
           "ok", "denied", "limited", "error", "unconfigured"}

OutboundInit ==
    /\ call      = [r \in Requests |-> "idle"]
    /\ ownTokens = OwnBurst
    /\ refills   = 0
    /\ auditLog  = [r \in Requests |-> <<>>]
    /\ conn      = TRUE
    /\ published = {}
    /\ wire      = {}
    /\ records   = {}
    /\ callback  = {}
    /\ inCh      = {}
    /\ closing   = "open"
    /\ panicked  = FALSE

\* The HTTP transport is registered without a sender (httpadapter.New(nil)).
HttpSender == FALSE

\* AuditLogger.Log: the record, or "failed" when Encode has returned an error, as it always
\* does once the shutdown has closed the file; the error is only logged.
Actions == {"deny", "rate_limit", "allow"}
Logged(r, action) ==
    IF "audit" \in Policies
    THEN \E entry \in {action, "failed"} : auditLog' = [auditLog EXCEPT ![r] = Append(@, entry)]
    ELSE UNCHANGED auditLog

---------------------------------------------------------------------------
(* SendTask: the core is always configured when the server serves, and     *)
(* every http, https and nats URL goes through it.                         *)

SendTask(r) ==
    /\ call[r] = "idle"
    /\ call' = [call EXCEPT ![r] = "acl"]
    /\ UNCHANGED <<ownTokens, refills, auditLog, conn, published, wire, records, callback, inCh,
                   closing, panicked>>

\* Step 1 of Route.
CheckACL(r) ==
    /\ call[r] = "acl"
    /\ IF "acl" \in Policies /\ r \in Denied
       THEN /\ call'     = [call EXCEPT ![r] = "denied"]
            /\ Logged(r, "deny")
       ELSE /\ call'     = [call EXCEPT ![r] = "rate"]
            /\ auditLog' = auditLog
    /\ UNCHANGED <<ownTokens, refills, conn, published, wire, records, callback, inCh, closing,
                   panicked>>

\* Step 2 of Route.
CheckRate(r) ==
    /\ call[r] = "rate"
    /\ IF "rate" \in Policies /\ ownTokens = 0
       THEN /\ call'      = [call EXCEPT ![r] = "limited"]
            /\ Logged(r, "rate_limit")
            /\ ownTokens' = ownTokens
       ELSE /\ call'      = [call EXCEPT ![r] = "allowed"]
            /\ auditLog'  = auditLog
            /\ ownTokens' = IF "rate" \in Policies THEN ownTokens - 1 ELSE ownTokens
    /\ UNCHANGED <<refills, conn, published, wire, records, callback, inCh, closing, panicked>>

\* Step 3 of Route.
LogAllow(r) ==
    /\ call[r] = "allowed"
    /\ call' = [call EXCEPT ![r] = "dispatch"]
    /\ Logged(r, "allow")
    /\ UNCHANGED <<ownTokens, refills, conn, published, wire, records, callback, inCh, closing,
                   panicked>>

\* Step 3.5 of Route: the payload cannot be encrypted for the recipient's key.
EncryptFails(r) ==
    /\ call[r] = "dispatch"
    /\ call' = [call EXCEPT ![r] = "error"]
    /\ UNCHANGED <<ownTokens, refills, auditLog, conn, published, wire, records, callback, inCh,
                   closing, panicked>>

\* Step 4 of Route: Core.Send takes the first transport that matches the target.
Dispatches(r, transport) == call[r] = "dispatch" /\ Target[r] = transport

SendHttp(r) ==
    /\ Dispatches(r, "http")
    /\ call' = [call EXCEPT ![r] = IF HttpSender THEN "routed" ELSE "unconfigured"]
    /\ UNCHANGED <<ownTokens, refills, auditLog, conn, published, wire, records, callback, inCh,
                   closing, panicked>>

\* The NATS transport publishes.
SendNats(r) ==
    /\ Dispatches(r, "nats") /\ conn
    /\ call'      = [call EXCEPT ![r] = "routed"]
    /\ published' = published \cup {r}
    /\ wire'      = wire \cup {r}
    /\ UNCHANGED <<ownTokens, refills, auditLog, conn, records, callback, inCh, closing, panicked>>

\* The subject is not valid, the envelope cannot be emitted, or the connection is closed.
SendNatsFails(r) ==
    /\ Dispatches(r, "nats")
    /\ call' = [call EXCEPT ![r] = "error"]
    /\ UNCHANGED <<ownTokens, refills, auditLog, conn, published, wire, records, callback, inCh,
                   closing, panicked>>

\* The local task record, only when Route has succeeded.
CreateTask(r) ==
    /\ call[r] = "routed"
    /\ records' = records \cup {r}
    /\ call'    = [call EXCEPT ![r] = "ok"]
    /\ UNCHANGED <<ownTokens, refills, auditLog, conn, published, wire, callback, inCh, closing, panicked>>

TokenReturns ==
    /\ refills < MaxRefills /\ ownTokens < OwnBurst
    /\ ownTokens' = ownTokens + 1
    /\ refills'   = refills + 1
    /\ UNCHANGED <<call, auditLog, conn, published, wire, records, callback, inCh, closing, panicked>>

\* The sender shuts its transport down.
CloseSender ==
    /\ conn
    /\ conn' = FALSE
    /\ UNCHANGED <<call, ownTokens, refills, auditLog, published, wire, records, callback, inCh,
                   closing, panicked>>

---------------------------------------------------------------------------
(* The target.  The NATS client runs the callback for one message at a     *)
(* time, in a goroutine that Close does not wait for.                      *)

Lose(r) ==
    /\ r \in wire
    /\ wire' = wire \ {r}
    /\ UNCHANGED <<call, ownTokens, refills, auditLog, conn, published, records, callback, inCh,
                   closing, panicked>>

Deliver(r) ==
    /\ ~panicked /\ closing = "open" /\ r \in wire /\ callback = {}
    /\ wire'     = wire \ {r}
    /\ callback' = {r}
    /\ UNCHANGED <<call, ownTokens, refills, auditLog, conn, published, records, inCh, closing,
                   panicked>>

\* handleMessage: an envelope that cannot be ingested, or that inCh has no room for, is
\* dropped; a send on the closed channel panics.
handleMessage(r, ingested) ==
    /\ ~panicked /\ callback = {r}
    /\ callback' = {}
    /\ panicked' = (ingested /\ closing = "closed")
    /\ inCh'     = IF ingested /\ closing # "closed" /\ Cardinality(inCh) < InCap
                   THEN inCh \cup {r} ELSE inCh
    /\ UNCHANGED <<call, ownTokens, refills, auditLog, conn, published, wire, records, closing>>

\* Close: Unsubscribe, conn.Close and close(inCh), once.
Close ==
    /\ ~panicked /\ closing # "closed"
    /\ closing' = CASE closing = "open"         -> "unsubscribed"
                    [] closing = "unsubscribed" -> "disconnected"
                    [] closing = "disconnected" -> "closed"
    /\ UNCHANGED <<call, ownTokens, refills, auditLog, conn, published, wire, records, callback, inCh,
                   panicked>>

OutboundNext ==
    \/ \E r \in Requests :
          \/ SendTask(r) \/ CheckACL(r) \/ CheckRate(r) \/ LogAllow(r)
          \/ EncryptFails(r) \/ SendHttp(r) \/ SendNats(r) \/ SendNatsFails(r)
          \/ CreateTask(r)
          \/ Lose(r) \/ Deliver(r)
          \/ \E ingested \in BOOLEAN : handleMessage(r, ingested)
    \/ TokenReturns
    \/ CloseSender
    \/ Close

OutboundSpec == OutboundInit /\ [][OutboundNext]_outboundVars

---------------------------------------------------------------------------
(* Properties.                                                             *)

\* The types of the variables; the target's channel never holds more than it has room for.
OutboundTypeOK ==
    /\ call \in [Requests -> Phases]
    /\ ownTokens \in 0..OwnBurst /\ refills \in 0..MaxRefills
    /\ \A r \in Requests : \A i \in DOMAIN auditLog[r] : auditLog[r][i] \in Actions \cup {"failed"}
    /\ wire \subseteq published /\ published \subseteq Requests /\ records \subseteq Requests
    /\ callback \subseteq published /\ Cardinality(callback) <= 1
    /\ inCh \subseteq published /\ Cardinality(inCh) <= InCap
    /\ closing \in {"open", "unsubscribed", "disconnected", "closed"}

\* Calls in flight at once, of which each took its token before it was published, never
\* send more messages than the limiter has given out.
WithinRate ==
    "rate" \in Policies => Cardinality(published) <= OwnBurst + refills - ownTokens

\* Log was called exactly once for every call that has an outcome, whichever of the three
\* places of Route did it; the message that is out has its allow record and the call that
\* was refused the record of its refusal, unless the record could not be written, which
\* stops nothing (core.go:174-218, audit.go:54-69).
LoggedOnce ==
    "audit" \in Policies =>
        \A r \in Requests :
            /\ call[r] \in Phases \ {"idle", "acl", "rate", "allowed"} => Len(auditLog[r]) = 1
            /\ r \in published => auditLog[r] \in {<<"allow">>, <<"failed">>}
            /\ call[r] = "denied"  => auditLog[r] \in {<<"deny">>, <<"failed">>}
            /\ call[r] = "limited" => auditLog[r] \in {<<"rate_limit">>, <<"failed">>}

\* The engine tracks a task that was sent to a URL only if a transport has taken the
\* message: no call that was refused or that failed leaves a task nobody will finish.
TrackedIsPublished == records \subseteq published

\* nats/transport.go: "Close shuts down the NATS subscription and connection", so that no
\* message is put into the channel that it closes.
NoSendOnClosed == ~panicked

\* main.go registers the HTTP transport because the "HTTP bridge uses existing outbound
\* client": a task for an http URL that the policy allows is not refused for want of one.
\* Not what the code does: see "Disagreements" in README.md.
HttpTaskIsBridged == \A r \in Requests : call[r] # "unconfigured"
=============================================================================
