-------------------------- MODULE ClaimConnection --------------------------
(***************************************************************************)
(* The pooled connection under claimRuns (queue.ts).  Its transaction runs *)
(* statement by statement, each awaited; then it returns readLedger(...)   *)
(* without awaiting it, so "finally { client.release() }" gives the        *)
(* connection back while the first ledger read is under way, and the reads *)
(* that follow are sent on a connection that may be somebody else's.       *)
(***************************************************************************)
EXTENDS Naturals, Sequences

CONSTANTS
    Conn,     \* connections of the pool
    Claim,    \* claimRuns calls
    Other,    \* other kernel transactions (withTx)
    Claimed,  \* runs each claim takes, at least one: one ledger read for each
    Unused    \* a connection that is idle in the pool; no caller

ASSUME ConnectionAssumption == Unused \notin Conn \cup Claim \cup Other

VARIABLES
    user,   \* per connection, who checked it out
    sent,   \* per connection, the statements sent and not yet executed
    open,   \* per connection, whether the server is inside a transaction
    session, \* per caller: [on, next, reads], its connection and what it does next
    waiting \* callers whose statement is not answered yet

conVars == <<user, sent, open, session, waiting>>

Querier == Claim \cup Other
Out    == [on |-> Unused, next |-> "connect", reads |-> 0]

ConInit ==
    /\ user = [n \in Conn |-> Unused]
    /\ sent = [n \in Conn |-> <<>>]
    /\ open = [n \in Conn |-> FALSE]
    /\ session = [c \in Querier |-> Out]
    /\ waiting = {}

\* What follows a statement of a transaction.
AfterUncommitted(what) == IF what = "begin" THEN "work" ELSE "finish"
After(what) == CASE what = "begin" -> "work"
                 [] what = "work" -> "commit"
                 [] what = "commit" -> "finish"

\* client.query: statements queue up on the connection, whoever sends them.
Send(c, n, what) == sent' = [sent EXCEPT ![n] = Append(@, [by |-> c, what |-> what])]

\* pool.connect, then BEGIN.
Connect(c, n) ==
    /\ session[c].next = "connect"
    /\ user[n] = Unused
    /\ user' = [user EXCEPT ![n] = c]
    /\ Send(c, n, "begin")
    /\ session' = [session EXCEPT ![c] = [on |-> n, next |-> After("begin"), reads |-> 0]]
    /\ waiting' = waiting \cup {c}
    /\ UNCHANGED open

\* The server executes the next statement of a connection and answers it.
Serve(n) ==
    /\ sent[n] # <<>>
    /\ open' = [open EXCEPT ![n] = CASE Head(sent[n]).what = "begin" -> TRUE
                                     [] Head(sent[n]).what = "commit" -> FALSE
                                     [] OTHER -> @]
    /\ sent' = [sent EXCEPT ![n] = Tail(@)]
    /\ waiting' = waiting \ {Head(sent[n]).by}
    /\ UNCHANGED <<user, session>>

\* The next awaited statement of a transaction.
Statement(c) ==
    /\ c \notin waiting
    /\ session[c].next \in {"work", "commit"}
    /\ Send(c, session[c].on, session[c].next)
    /\ session' = [session EXCEPT ![c].next = After(@)]
    /\ waiting' = waiting \cup {c}
    /\ UNCHANGED <<user, open>>

\* withTx: the transaction is over, the connection goes back.
GiveBack(c) ==
    /\ c \in Other \ waiting
    /\ session[c].next = "finish"
    /\ user' = [user EXCEPT ![session[c].on] = Unused]
    /\ session' = [session EXCEPT ![c] = Out]
    /\ UNCHANGED <<sent, open, waiting>>

\* claimRuns: return readLedger(client, ...) sends the first read; finally
\* releases the connection before the answer.
ReturnLedger(c) ==
    /\ c \in Claim \ waiting
    /\ session[c].next = "finish"
    /\ Send(c, session[c].on, "read")
    /\ user' = [user EXCEPT ![session[c].on] = Unused]
    /\ session' = [session EXCEPT ![c].next = "ledger", ![c].reads = 1]
    /\ waiting' = waiting \cup {c}
    /\ UNCHANGED open

\* readLedger's loop: one read per claimed run, on the same client.
NextRead(c) ==
    /\ c \notin waiting
    /\ session[c].next = "ledger"
    /\ IF session[c].reads < Claimed
       THEN /\ Send(c, session[c].on, "read")
            /\ session' = [session EXCEPT ![c].reads = @ + 1]
            /\ waiting' = waiting \cup {c}
       ELSE /\ session' = [session EXCEPT ![c] = Out]
            /\ UNCHANGED <<sent, waiting>>
    /\ UNCHANGED <<user, open>>

ConNext ==
    \/ \E n \in Conn : Serve(n)
    \/ \E c \in Querier : \/ Statement(c) \/ GiveBack(c) \/ ReturnLedger(c) \/ NextRead(c)
                         \/ \E n \in Conn : Connect(c, n)

ConSpec == ConInit /\ [][ConNext]_conVars

\* "For each claimed run, read its run_steps snapshot OUTSIDE any transaction"
\* (queue.ts, claimRuns): no ledger read executes inside a transaction, where it
\* would see what another caller has not committed, or fail with that caller.
LedgerReadOutsideTx ==
    \A n \in Conn : sent[n] # <<>> /\ Head(sent[n]).what = "read" => ~open[n]

=============================================================================
