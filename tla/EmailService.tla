--------------------------- MODULE EmailService ---------------------------
(***************************************************************************)
(* The SMTP service, pkg/email/smtp_service.go: emails sent over pooled    *)
(* connections, with retries, beside the cleanup worker and Shutdown.      *)
(*                                                                         *)
(* A connection carries the transaction its server has open, which only a  *)
(* message, RSET or a new connection ends; it may break at any command,    *)
(* and the answer to a message may be lost after the server accepted it.   *)
(* The pool is a channel: its order is left out.  The server answers every *)
(* command: the code sets no deadline on one.  Messages are not composed.  *)
(* Of the mode for development nothing is modelled: it sends nothing.      *)
(***************************************************************************)
EXTENDS Naturals, FiniteSets

CONSTANTS
    Emails,          \* emails to send, each by a goroutine of its own
    Conns,           \* connections
    MaxConnections,  \* capacity of the pool's channel
    MaxIdleConns,    \* connections created at the start
    MaxAttempts,
    None

EmailAssumption ==
    /\ MaxConnections \in Nat \ {0} /\ MaxIdleConns \in 0..MaxConnections
    /\ MaxAttempts \in Nat \ {0}
    /\ IsFiniteSet(Emails) /\ None \notin Conns

VARIABLES
    server,     \* server[c]: "closed", the transaction open on it, or "broken"
    accepted,   \* accepted[e]: how often a server has accepted the email
    pool,       \* connections in the channel connPool
    gone,       \* the channel is closed
    send,       \* send[e]: where SendEmail is, with which connection, at which attempt
    active,     \* activeConns
    total,      \* stats: TotalSent and TotalFailed
    dialing,    \* goroutines of initConnectionPool that have yet to connect
    dialled,    \* connections these have made and will put into the pool
    cleaner,    \* the cleanup worker: waiting, draining what it has taken, or ended
    shutdown,   \* "no", "waiting" for the cleanup worker, "draining", "done"
    panicked    \* a send on the closed channel: the process is gone

outside == <<server, accepted>>
sending == <<send, active, total>>
starting == <<dialing, dialled>>
vars == <<outside, pool, gone, sending, starting, cleaner, shutdown, panicked>>

At(e, at) == ~panicked /\ send[e].at = at
Held(e) == send[e].conn
Goes(e, at) == send' = [send EXCEPT ![e].at = at]
Live(c) == server[c] \notin {"closed", "broken"}

\* isConnectionValid: not idle for too long, and it answers NOOP.
Valid(c, fresh) == Live(c) /\ fresh

Count(what) == total' = [total EXCEPT ![what] = @ + 1]

-----------------------------------------------------------------------------
(* Connections.                                                            *)

\* A connection that is not there yet, after STARTTLS and authentication.
Unused(c) == server[c] = "closed" /\ c \notin pool \cup dialled
             /\ \A e \in Emails : Held(e) # c
CloseConn(c) == server' = [server EXCEPT ![c] = "closed"]

Take(e, c) ==
    /\ send' = [send EXCEPT ![e].at = "mail", ![e].conn = c]
    /\ active' = active + 1

\* getConnection: a pooled connection, if it is valid.
GetPooled(e) ==
    /\ At(e, "get")
    /\ \E c \in pool, fresh \in BOOLEAN :
           /\ pool' = pool \ {c}
           /\ IF Valid(c, fresh) THEN Take(e, c) /\ UNCHANGED server
              ELSE CloseConn(c) /\ Goes(e, "create") /\ UNCHANGED active
    /\ UNCHANGED <<accepted, gone, total, starting, cleaner, shutdown, panicked>>

\* Without one, or from the closed channel, which yields nil, a new connection.
GetNone(e) ==
    /\ At(e, "get") /\ pool = {}
    /\ Goes(e, "create")
    /\ UNCHANGED <<outside, pool, gone, active, total, starting, cleaner, shutdown, panicked>>

\* The text of the error has "connection" in it: it is retried.
CreateConnection(e) ==
    /\ At(e, "create")
    /\ \/ \E c \in Conns : /\ Unused(c)
                           /\ server' = [server EXCEPT ![c] = "ready"] /\ Take(e, c)
       \/ Goes(e, "retry") /\ UNCHANGED <<server, active>>
    /\ UNCHANGED <<accepted, pool, gone, total, starting, cleaner, shutdown, panicked>>

\* Mutant: a connection that does not fit is dropped without being closed.
PutBack_Dropped(c) ==
    IF gone THEN panicked' = TRUE /\ UNCHANGED <<server, pool>>
    ELSE /\ pool' = IF Cardinality(pool) < MaxConnections THEN pool \cup {c} ELSE pool
         /\ UNCHANGED <<server, panicked>>

\* Into the channel if there is room; a closed channel panics.
PutBack(c) ==
    IF gone THEN panicked' = TRUE /\ UNCHANGED <<server, pool>>
    ELSE /\ IF Cardinality(pool) < MaxConnections
            THEN pool' = pool \cup {c} /\ UNCHANGED server
            ELSE CloseConn(c) /\ UNCHANGED pool
         /\ UNCHANGED panicked

\* releaseConnection, deferred: however the attempt ended, its outcome is kept.
After == [sent |-> "sent", refused |-> "failed", again |-> "retry"]
Release(e) ==
    /\ ~panicked /\ Held(e) # None /\ send[e].at \in DOMAIN After
    /\ active' = active - 1
    /\ send' = [send EXCEPT ![e].at = After[@], ![e].conn = None]
    /\ \E fresh \in BOOLEAN :
           IF Valid(Held(e), fresh) THEN PutBack(Held(e))
           ELSE CloseConn(Held(e)) /\ UNCHANGED <<pool, panicked>>
    /\ UNCHANGED <<accepted, gone, total, starting, cleaner, shutdown>>

-----------------------------------------------------------------------------
(* sendEmailOnce: MAIL, RCPT, DATA, the message, RSET.                     *)

Command(e, state, at) ==
    /\ server' = [server EXCEPT ![Held(e)] = state]
    /\ Goes(e, at)
    /\ UNCHANGED <<pool, gone, active, total, starting, cleaner, shutdown, panicked>>

\* An error of the network, which is retried, or a connection that was broken before.
Breaks(e) == Command(e, "broken", "again") /\ UNCHANGED accepted

\* A refusal is retried if the server's text, or the recipient's address, happens to
\* contain one of the words that stand for a temporary error.
Refusal == {"refused", "again"}

\* A server refuses MAIL inside a transaction.
Mail(e) ==
    /\ At(e, "mail")
    /\ \/ server[Held(e)] = "ready" /\ Command(e, "open", "rcpt") /\ UNCHANGED accepted
       \/ \E next \in Refusal : Live(Held(e)) /\ Command(e, server[Held(e)], next)
                                /\ UNCHANGED accepted
       \/ Breaks(e)

Rcpt(e) ==
    /\ At(e, "rcpt")
    /\ \/ Command(e, "open", "data") /\ UNCHANGED accepted
       \/ \E next \in Refusal : Command(e, "open", next) /\ UNCHANGED accepted
       \/ Breaks(e)

\* "failed to open data writer" and "failed to close data writer" have "write" in them:
\* every refusal from here on is retried.
Data(e) ==
    /\ At(e, "data")
    /\ \/ Command(e, "open", "message") /\ UNCHANGED accepted
       \/ Command(e, "open", "again") /\ UNCHANGED accepted
       \/ Breaks(e)

Accepts(e) == accepted' = [accepted EXCEPT ![e] = @ + 1]

\* The answer to the message ends the transaction, or is lost.  RSET after it may fail.
Message(e) ==
    /\ At(e, "message")
    /\ \/ \E state \in {"ready", "broken"} : Command(e, state, "sent") /\ Accepts(e)
       \/ Command(e, "ready", "again") /\ UNCHANGED accepted
       \/ Command(e, "broken", "again") /\ (Accepts(e) \/ UNCHANGED accepted)

-----------------------------------------------------------------------------
(* SendEmail and its retries.                                              *)

\* Refused by validateMessage or the rate limiter, or on its way.
SendEmail(e) ==
    /\ At(e, "new")
    /\ \/ Goes(e, "get") /\ UNCHANGED total
       \/ Goes(e, "done") /\ Count("failed")
    /\ UNCHANGED <<outside, pool, gone, active, starting, cleaner, shutdown, panicked>>

\* After a delay, in which the caller's context may end, the next attempt.
Retry(e) ==
    /\ At(e, "retry")
    /\ \/ /\ send[e].attempt < MaxAttempts
          /\ send' = [send EXCEPT ![e].at = "get", ![e].attempt = @ + 1]
       \/ Goes(e, "failed")
    /\ UNCHANGED <<outside, pool, gone, active, total, starting, cleaner, shutdown, panicked>>

\* updateStats, and the answer.
Finish(e) ==
    /\ ~panicked /\ send[e].at \in {"sent", "failed"} /\ Held(e) = None
    /\ Count(send[e].at)
    /\ send' = [send EXCEPT ![e].at = IF @ = "sent" THEN "told" ELSE "done"]
    /\ UNCHANGED <<outside, pool, gone, active, starting, cleaner, shutdown, panicked>>

-----------------------------------------------------------------------------
(* The connections made at the start, the cleanup worker and Shutdown.     *)

Dial ==
    /\ ~panicked /\ dialing > 0
    /\ dialing' = dialing - 1
    /\ \/ \E c \in Conns : /\ Unused(c)
                           /\ server' = [server EXCEPT ![c] = "ready"]
                           /\ dialled' = dialled \cup {c}
       \/ UNCHANGED <<server, dialled>>
    /\ UNCHANGED <<accepted, pool, gone, sending, cleaner, shutdown, panicked>>

PutDialled ==
    /\ ~panicked
    /\ \E c \in dialled : PutBack(c) /\ dialled' = dialled \ {c}
    /\ UNCHANGED <<accepted, gone, sending, dialing, cleaner, shutdown>>

Waiting == [at |-> "waiting", taken |-> {}]

Tick ==
    /\ ~panicked /\ cleaner = Waiting
    /\ cleaner' = [at |-> "draining", taken |-> {}]
    /\ UNCHANGED <<outside, pool, gone, sending, starting, shutdown, panicked>>

\* cleanupConnections: all are taken from the pool, and those that are valid put back.
Drain ==
    /\ ~panicked /\ cleaner.at = "draining"
    /\ \/ \E c \in pool, fresh \in BOOLEAN :
              /\ pool' = pool \ {c}
              /\ IF Valid(c, fresh)
                 THEN cleaner' = [cleaner EXCEPT !.taken = @ \cup {c}] /\ UNCHANGED server
                 ELSE CloseConn(c) /\ UNCHANGED cleaner
       \/ /\ pool = {}
          /\ cleaner' = [cleaner EXCEPT !.at = "returning"]
          /\ UNCHANGED <<server, pool>>
    /\ UNCHANGED <<accepted, gone, sending, starting, shutdown, panicked>>

Return ==
    /\ ~panicked /\ cleaner.at = "returning"
    /\ IF cleaner.taken = {}
       THEN cleaner' = Waiting /\ UNCHANGED <<server, pool, panicked>>
       ELSE \E c \in cleaner.taken :
                PutBack(c) /\ cleaner' = [cleaner EXCEPT !.taken = @ \ {c}]
    /\ UNCHANGED <<accepted, gone, sending, starting, shutdown>>

\* The cleanup worker sees the cancelled context between two rounds.
CleanerEnds ==
    /\ ~panicked /\ shutdown # "no" /\ cleaner = Waiting
    /\ cleaner' = [at |-> "ended", taken |-> {}]
    /\ UNCHANGED <<outside, pool, gone, sending, starting, shutdown, panicked>>

Shutdown ==
    /\ ~panicked /\ shutdown = "no"
    /\ shutdown' = "waiting"
    /\ UNCHANGED <<outside, pool, gone, sending, starting, cleaner, panicked>>

\* The wait group has only the cleanup worker; the context of Shutdown may end first,
\* and the pool is left as it is.
Waited ==
    /\ ~panicked /\ shutdown = "waiting"
    /\ \/ cleaner.at = "ended" /\ gone' = TRUE /\ shutdown' = "draining"
       \/ gone' = gone /\ shutdown' = "done"
    /\ UNCHANGED <<outside, pool, sending, starting, cleaner, panicked>>

closeConnectionPool ==
    /\ ~panicked /\ shutdown = "draining"
    /\ \/ \E c \in pool : CloseConn(c) /\ pool' = pool \ {c} /\ UNCHANGED shutdown
       \/ pool = {} /\ shutdown' = "done" /\ UNCHANGED <<server, pool>>
    /\ UNCHANGED <<accepted, gone, sending, starting, cleaner, panicked>>

-----------------------------------------------------------------------------
Init ==
    /\ server = [c \in Conns |-> "closed"]
    /\ accepted = [e \in Emails |-> 0]
    /\ pool = {} /\ gone = FALSE
    /\ send = [e \in Emails |-> [at |-> "new", conn |-> None, attempt |-> 1]]
    /\ active = 0
    /\ total = [sent |-> 0, failed |-> 0]
    /\ dialing = MaxIdleConns /\ dialled = {}
    /\ cleaner = Waiting
    /\ shutdown = "no" /\ panicked = FALSE

Step(e) ==
    \/ SendEmail(e) \/ GetPooled(e) \/ GetNone(e) \/ CreateConnection(e)
    \/ Mail(e) \/ Rcpt(e) \/ Data(e) \/ Message(e)
    \/ Release(e) \/ Retry(e) \/ Finish(e)

Next ==
    \/ \E e \in Emails : Step(e)
    \/ Dial \/ PutDialled
    \/ Tick \/ Drain \/ Return \/ CleanerEnds
    \/ Shutdown \/ Waited \/ closeConnectionPool

Spec == Init /\ [][Next]_vars

-----------------------------------------------------------------------------
(* The properties.                                                         *)

TypeOK ==
    /\ server \in [Conns -> {"closed", "ready", "open", "broken"}]
    /\ accepted \in [Emails -> 0..MaxAttempts]
    /\ pool \subseteq Conns /\ dialled \subseteq Conns /\ cleaner.taken \subseteq Conns
    /\ \A e \in Emails : /\ send[e].conn \in Conns \cup {None}
                         /\ send[e].attempt \in 1..MaxAttempts
    /\ active \in 0..Cardinality(Emails)
    /\ total.sent + total.failed <= Cardinality(Emails)
    /\ dialing \in 0..MaxIdleConns
    /\ gone \in BOOLEAN /\ panicked \in BOOLEAN

Holders(c) == {e \in Emails : Held(e) = c}

\* A connection is never used by two senders, nor pooled while it is in use, and none is
\* lost: whoever leaves with a connection leaves it in the pool or closes it, and the
\* count of active connections is that of the senders that hold one.
ConnectionsAccounted ==
    ~panicked =>
        /\ \A c \in Conns :
               Cardinality(Holders(c)) + Cardinality({c} \cap pool)
                 + Cardinality({c} \cap dialled) + Cardinality({c} \cap cleaner.taken)
               = IF server[c] = "closed" THEN 0 ELSE 1
        /\ active = Cardinality({e \in Emails : Held(e) # None})

\* A caller who is told that the email was sent can rely on a server having accepted it,
\* and one whose first attempt may have been accepted is not made to send it more often
\* than MaxAttempts.
ToldIsAccepted ==
    \A e \in Emails : /\ send[e].at \in {"sent", "told"} => accepted[e] > 0
                      /\ accepted[e] <= MaxAttempts
=============================================================================
