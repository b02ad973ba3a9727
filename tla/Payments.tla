------------------------------ MODULE Payments ------------------------------
(***************************************************************************)
(* Paging through the payment history of ldk-server-gui: the payments slot *)
(* of AsyncTasks and its trigger fetch_payments (app.rs), the handler of   *)
(* its poll_task! that stores the page and its next_page_token, the        *)
(* Refresh and Load More buttons of the Payments tab (ui/payments.rs), the *)
(* History tab of the on-chain panel (ui/onchain.rs), and the connection   *)
(* lifecycle whose client every request captures.                          *)
(*                                                                         *)
(* Data is abstracted: a page is the connection that received it and its   *)
(* index in that connection's listing; a page token is the connection      *)
(* that received it and the index of the page it points at.  A status    *)
(* message is only None, Ok or Err; the other operations are left to the  *)
(* Dispatcher module.                                                      *)
(***************************************************************************)
EXTENDS Naturals

CONSTANTS
    MaxConnects, \* bound: number of clients created (connect successes)
    NPages       \* pages of the payment listing the server hands out

ASSUME PaymentsAssumption ==
    /\ MaxConnects \in Nat \ {0}
    /\ NPages \in Nat \ {0}

VARIABLES
    client,   \* AppState.client: 0 = None, g > 0 = the g-th client created
    lastGen,  \* number of clients created so far
    task,     \* AsyncTasks.payments
    payments, \* AppState.payments: the page shown
    token,    \* AppState.payments_page_token
    status    \* AppState.status_message: "None", "Ok" or "Err"

vars == <<client, lastGen, task, payments, token, status>>

Gens == 0..MaxConnects

(* A page, or a page token: gen = 0 is None. *)
Refs == [gen: Gens, idx: 0..NPages]
NoPage == [gen |-> 0, idx |-> 0]
NoToken == NoPage

(* A task: st = "None" is an empty slot; "Sent": list_payments is        *)
(* outstanding on client gen with page_token tok; "Ready": its outcome   *)
(* out sits in the handle.                                               *)
Tasks == [st: {"None", "Sent", "Ready"}, gen: Gens, tok: Refs,
          out: {"ok", "err"}]
NoTask == [st |-> "None", gen |-> 0, tok |-> NoToken, out |-> "err"]

(* Mutant: a next token is handed out for the last page as well.        *)
NextTokenOffByOne(p) ==
    IF p.idx <= NPages THEN [gen |-> p.gen, idx |-> p.idx + 1] ELSE NoToken

(* ListPaymentsResponse.next_page_token of page p: the next page, if any. *)
NextToken(p) ==
    IF p.idx < NPages THEN [gen |-> p.gen, idx |-> p.idx + 1] ELSE NoToken

(* The page client g gets for list_payments(page_token = tok): the first *)
(* page without a token, otherwise the page the token points at (the      *)
(* server reads a token as a position in its listing).                    *)
Response(g, tok) ==
    [gen |-> g, idx |-> IF tok = NoToken THEN 1 ELSE tok.idx]

(* fetch_payments(): a no-op while the slot is occupied or without a      *)
(* client; otherwise list_payments is spawned with the token it reads.    *)
FetchPayments(tok) ==
    task' = IF task.st = "None" /\ client # 0
            THEN [st |-> "Sent", gen |-> client, tok |-> tok, out |-> "err"]
            ELSE task

-----------------------------------------------------------------------------
Init ==
    /\ client = 0
    /\ lastGen = 0
    /\ task = NoTask
    /\ payments = NoPage
    /\ token = NoToken
    /\ status = "None"

(* The awaited list_payments returns, and the task publishes its outcome. *)
Serve ==
    /\ task.st = "Sent"
    /\ \E o \in {"ok", "err"} : task' = [task EXCEPT !.st = "Ready", !.out = o]
    /\ UNCHANGED <<client, lastGen, payments, token, status>>

(* Mutant: the handler keeps the old token when the page has no next one *)
(* (`if let Some(t) = v.next_page_token { token = Some(t) }`).           *)
PollPaymentsKeepsToken ==
    /\ task.st = "Ready"
    /\ task' = NoTask
    /\ IF task.out = "ok"
       THEN LET p == Response(task.gen, task.tok) IN
            /\ payments' = p
            /\ token' = IF NextToken(p) # NoToken THEN NextToken(p) ELSE token
            /\ UNCHANGED status
       ELSE /\ status' = "Err"
            /\ UNCHANGED <<payments, token>>
    /\ UNCHANGED <<client, lastGen>>

(* The poll_task! of the payments slot: the handle is taken; Ok stores    *)
(* the page and its next_page_token, Err only sets the error status.      *)
PollPayments ==
    /\ task.st = "Ready"
    /\ task' = NoTask
    /\ IF task.out = "ok"
       THEN LET p == Response(task.gen, task.tok) IN
            /\ payments' = p
            /\ token' = NextToken(p)
            /\ UNCHANGED status
       ELSE /\ status' = "Err"
            /\ UNCHANGED <<payments, token>>
    /\ UNCHANGED <<client, lastGen>>

(* The Payments tab renders its buttons only while connected, and only   *)
(* while no request is in flight.                                        *)
ButtonsShown == client # 0 /\ task.st = "None"

(* Refresh: the token is dropped, then fetch_payments().                  *)
Refresh ==
    /\ ButtonsShown
    /\ token' = NoToken
    /\ FetchPayments(NoToken)
    /\ UNCHANGED <<client, lastGen, payments, status>>

(* Load More, shown while a token is set: fetch_payments().               *)
LoadMore ==
    /\ ButtonsShown
    /\ token # NoToken
    /\ FetchPayments(token)
    /\ UNCHANGED <<client, lastGen, payments, token, status>>

(* The History tab of the on-chain panel, clicked while connected: fetch  *)
(* the payments if none are loaded.                                       *)
OpenHistory ==
    /\ client # 0
    /\ payments = NoPage
    /\ FetchPayments(token)
    /\ UNCHANGED <<client, lastGen, payments, token, status>>

(* connect() with empty fields, an unreadable certificate or a client     *)
(* that cannot be built: only the status changes.                         *)
ConnectFails ==
    /\ client = 0
    /\ status' = "Err"
    /\ UNCHANGED <<client, lastGen, task, payments, token>>

(* connect() creates a new client; its fetches do not include payments.  *)
Connect ==
    /\ client = 0
    /\ lastGen < MaxConnects
    /\ client' = lastGen + 1
    /\ lastGen' = lastGen + 1
    /\ status' = "Ok"
    /\ UNCHANGED <<task, payments, token>>

(* disconnect(): drops the client and the payments shown; the token and  *)
(* the task in flight are left alone.                                     *)
Disconnect ==
    /\ client # 0
    /\ client' = 0
    /\ payments' = NoPage
    /\ status' = "Ok"
    /\ UNCHANGED <<lastGen, task, token>>

Next ==
    \/ Serve \/ PollPayments
    \/ OpenHistory \/ Refresh \/ LoadMore
    \/ ConnectFails \/ Connect \/ Disconnect

Spec == Init /\ [][Next]_vars

-----------------------------------------------------------------------------
TypeOK ==
    /\ client \in Gens
    /\ lastGen \in Gens
    /\ task \in Tasks
    /\ payments \in Refs
    /\ token \in Refs
    /\ status \in {"None", "Ok", "Err"}

(* What Load More relies on: a token that belongs to the current         *)
(* connection is the next_page_token of the page shown, so Load More     *)
(* fetches the page after it.  The handler must store the token of every *)
(* page, None included, and a late response of an earlier connection     *)
(* must not pass for one of this connection.                             *)
TokenContinuesPage ==
    (token # NoToken /\ token.gen = client)
        => payments = [gen |-> client, idx |-> token.idx - 1]

(* What Refresh and Load More promise, as a step: a page the poll_task!   *)
(* handler stores over a page of the same connection is the first page    *)
(* (Refresh) or the one right after it (Load More), never a page skipped  *)
(* to or shown again.  It depends on fetch_payments reading the token the  *)
(* handler stored for the page on screen, and on disconnect() dropping the *)
(* page, across every interleaving of clicks, replies and reconnects.     *)
PageStep ==
    (/\ task.st = "Ready" /\ task.out = "ok" /\ task'.st = "None"
     /\ payments # NoPage /\ payments'.gen = payments.gen)
        => payments'.idx \in {1, payments.idx + 1}
PageAdvances == [][PageStep]_vars

(* What Load More and the History tab intend: a list_payments request     *)
(* starts a listing or continues one received on the same connection.    *)
(* disconnect() keeps payments_page_token, so after a reconnect Load More *)
(* and the History tab send the previous connection's token.             *)
RequestTokenFromConnection ==
    (task.st # "None" /\ task.tok # NoToken) => task.tok.gen = task.gen

(* What the Payments tab tells the user: when no request is in flight and *)
(* the page shown says "More payments available. Click 'Load More'", the *)
(* Load More button is there.  Refresh drops the token before its request *)
(* and a failed request does not restore it.                             *)
LoadMoreOffered ==
    (ButtonsShown /\ payments # NoPage /\ NextToken(payments) # NoToken)
        => token # NoToken

=============================================================================
