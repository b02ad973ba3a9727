--------------------------- MODULE PaymentsProofs ---------------------------
(***************************************************************************)
(* Proofs about payment paging for every number of pages and connections: *)
(* type correctness, and that a page token of the current connection is   *)
(* always the next_page_token of the page shown (TokenContinuesPage).     *)
(***************************************************************************)
EXTENDS Payments, TLAPS

(* The inductive invariant behind TokenContinuesPage: clients, tasks and  *)
(* tokens belong to connections created so far, and a token is None or    *)
(* belongs to a real connection.  Without it a reconnect could reuse the  *)
(* generation of a token (Connect) or a token could name "no client"      *)
(* (Disconnect).                                                          *)
PInv ==
    /\ TypeOK
    /\ client <= lastGen
    /\ token = NoToken \/ token.gen \in 1..lastGen
    /\ task.st # "None" => task.gen \in 1..lastGen
    /\ TokenContinuesPage

(* The inductive invariant behind PageAdvances: a page shown belongs to a *)
(* connection created so far; while it belongs to the current connection  *)
(* the token does too (or is None); and a request in flight with a token,  *)
(* on the connection of the page shown, asks for the page right after it. *)
QInv ==
    /\ PInv
    /\ payments # NoPage => payments.gen \in 1..lastGen
    /\ (payments # NoPage /\ payments.gen = client)
           => (token = NoToken \/ token.gen = client)
    /\ (/\ task.st # "None" /\ task.tok # NoToken
        /\ payments # NoPage /\ task.gen = payments.gen)
           => task.tok.idx = payments.idx + 1

(* The empty page, token and task are well typed.                        *)
LEMMA EmptyType == NoPage \in Refs /\ NoToken \in Refs /\ NoTask \in Tasks
BY PaymentsAssumption DEF NoPage, NoToken, NoTask, Refs, Tasks, Gens

(* The next_page_token of a page is a page token.                        *)
LEMMA NextTokenType ==
    ASSUME NEW p \in Refs
    PROVE  NextToken(p) \in Refs
BY PaymentsAssumption DEF NextToken, NoToken, NoPage, Refs, Gens

(* The page a client gets for a token is a page.                          *)
LEMMA ResponseType ==
    ASSUME NEW g \in Gens, NEW tok \in Refs
    PROVE  Response(g, tok) \in Refs
BY PaymentsAssumption DEF Response, Refs

(* A page handed to a real connection carries that connection, and so    *)
(* does its next_page_token, which points one page further.               *)
LEMMA NextTokenOfPage ==
    ASSUME NEW p \in Refs
    PROVE  NextToken(p) = NoToken
           \/ NextToken(p) = [gen |-> p.gen, idx |-> p.idx + 1]
BY DEF NextToken

-----------------------------------------------------------------------------
LEMMA InitPInv == Init => PInv
<1> SUFFICES ASSUME Init PROVE PInv
  OBVIOUS
<1>1. TypeOK
  BY EmptyType, PaymentsAssumption DEF Init, TypeOK, Gens
<1>2. client <= lastGen /\ token = NoToken /\ task.st = "None"
  BY DEF Init, NoTask
<1>3. TokenContinuesPage
  BY <1>2 DEF TokenContinuesPage
<1>4. QED
  BY <1>1, <1>2, <1>3 DEF PInv

(* A request spawned by fetch_payments carries the current client, which *)
(* is a real connection when the request is spawned at all.             *)
LEMMA FetchType ==
    ASSUME TypeOK, client <= lastGen,
           (task.st # "None" => task.gen \in 1..lastGen),
           NEW tok \in Refs, FetchPayments(tok)
    PROVE  /\ task' \in Tasks
           /\ task'.st # "None" => task'.gen \in 1..lastGen
BY DEF FetchPayments, TypeOK, Tasks, Gens

LEMMA NextPInv == PInv /\ [Next]_vars => PInv'
<1> SUFFICES ASSUME PInv, [Next]_vars PROVE PInv'
  OBVIOUS
<1>0. /\ TypeOK
      /\ client <= lastGen
      /\ token = NoToken \/ token.gen \in 1..lastGen
      /\ task.st # "None" => task.gen \in 1..lastGen
      /\ TokenContinuesPage
  BY DEF PInv
<1>1. CASE Serve
  BY <1>0, <1>1 DEF Serve, PInv, TypeOK, Tasks, TokenContinuesPage
<1>2. CASE PollPayments
  <2> DEFINE p == Response(task.gen, task.tok)
  <2>1. task.st = "Ready" /\ task' = NoTask /\ UNCHANGED <<client, lastGen>>
    BY <1>2 DEF PollPayments
  <2>2. task.gen \in 1..lastGen /\ task.tok \in Refs
    BY <1>0, <2>1 DEF TypeOK, Tasks
  <2>3. p \in Refs /\ p.gen = task.gen
    <3>1. task.gen \in Gens
      BY <2>2, <1>0, PaymentsAssumption DEF TypeOK, Gens
    <3>2. p \in Refs
      BY <3>1, <2>2, ResponseType
    <3>3. QED
      BY <3>2 DEF Response
  <2>4. CASE task.out = "ok"
    <3>1. payments' = p /\ token' = NextToken(p) /\ status' = status
      BY <1>2, <2>4 DEF PollPayments
    <3>2. token' \in Refs
      BY <2>3, <3>1, NextTokenType
    <3>3. token' = NoToken \/ token' = [gen |-> p.gen, idx |-> p.idx + 1]
      BY <2>3, <3>1, NextTokenOfPage
    <3>4. TokenContinuesPage'
      BY <2>3, <3>1, <3>3 DEF TokenContinuesPage, Refs
    <3>5. QED
      BY <1>0, <2>1, <2>2, <2>3, <3>1, <3>2, <3>3, <3>4, EmptyType
         DEF PInv, TypeOK, NoTask
  <2>5. CASE task.out # "ok"
    <3>1. UNCHANGED <<payments, token>> /\ status' = "Err"
      BY <1>2, <2>5 DEF PollPayments
    <3>2. QED
      BY <1>0, <2>1, <3>1, EmptyType DEF PInv, TypeOK, NoTask, TokenContinuesPage
  <2>6. QED
    BY <2>4, <2>5
<1>3. CASE OpenHistory \/ LoadMore
  <2>1. /\ UNCHANGED <<client, lastGen, payments, token, status>>
        /\ FetchPayments(token)
    BY <1>3 DEF OpenHistory, LoadMore
  <2>2. task' \in Tasks /\ (task'.st # "None" => task'.gen \in 1..lastGen)
    BY <1>0, <2>1, FetchType DEF TypeOK
  <2>3. QED
    BY <1>0, <2>1, <2>2 DEF PInv, TypeOK, TokenContinuesPage
<1>4. CASE Refresh
  <2>1. /\ UNCHANGED <<client, lastGen, payments, status>>
        /\ token' = NoToken
        /\ FetchPayments(NoToken)
    BY <1>4 DEF Refresh
  <2>2. task' \in Tasks /\ (task'.st # "None" => task'.gen \in 1..lastGen)
    BY <1>0, <2>1, FetchType, EmptyType
  <2>3. QED
    BY <1>0, <2>1, <2>2, EmptyType DEF PInv, TypeOK, TokenContinuesPage
<1>5. CASE ConnectFails
  BY <1>0, <1>5 DEF ConnectFails, PInv, TypeOK, TokenContinuesPage
<1>6. CASE Connect
  <2>1. client' = lastGen + 1 /\ lastGen' = lastGen + 1 /\ lastGen < MaxConnects
    BY <1>6 DEF Connect
  <2>2. UNCHANGED <<task, payments, token>> /\ status' = "Ok"
    BY <1>6, Zenon DEF Connect
  <2>3. client' \in Gens /\ lastGen' \in Gens /\ client' <= lastGen'
    BY <1>0, <2>1, PaymentsAssumption DEF TypeOK, Gens
  <2>4. token = NoToken \/ token.gen # client'
    BY <1>0, <2>1 DEF TypeOK, Gens
  <2>5. TokenContinuesPage'
    BY <2>2, <2>4 DEF TokenContinuesPage
  <2>6. token' = NoToken \/ token'.gen \in 1..lastGen'
    BY <1>0, <2>1, <2>2 DEF TypeOK, Gens
  <2>7. task'.st # "None" => task'.gen \in 1..lastGen'
    BY <1>0, <2>1, <2>2 DEF TypeOK, Gens
  <2>8. QED
    BY <1>0, <2>2, <2>3, <2>5, <2>6, <2>7 DEF PInv, TypeOK
<1>7. CASE Disconnect
  <2>1. /\ client' = 0 /\ payments' = NoPage /\ status' = "Ok"
        /\ UNCHANGED <<lastGen, task, token>>
    BY <1>7 DEF Disconnect
  <2>2. token = NoToken \/ token.gen # 0
    BY <1>0
  <2>3. QED
    BY <1>0, <2>1, <2>2, EmptyType, PaymentsAssumption
       DEF PInv, TypeOK, TokenContinuesPage, Gens
<1>8. CASE UNCHANGED vars
  BY <1>0, <1>8 DEF vars, PInv, TypeOK, TokenContinuesPage
<1>9. QED
  BY <1>1, <1>2, <1>3, <1>4, <1>5, <1>6, <1>7, <1>8 DEF Next

-----------------------------------------------------------------------------
(* Every reachable state is well typed.                                   *)
THEOREM PaymentsTypeCorrect == Spec => []TypeOK
<1>1. Init => PInv
  BY InitPInv
<1>2. PInv /\ [Next]_vars => PInv'
  BY NextPInv
<1>3. PInv => TypeOK
  BY DEF PInv
<1>4. QED
  BY <1>1, <1>2, <1>3, PTL DEF Spec

(* In every reachable state a page token of the current connection is the *)
(* next_page_token of the page the Payments tab shows, so Load More      *)
(* fetches the page after it: the poll_task! handler stores every page's  *)
(* token, None included, and tasks of an earlier connection cannot pass  *)
(* their pages off as this connection's.                                  *)
THEOREM LoadMoreContinues == Spec => []TokenContinuesPage
<1>1. Init => PInv
  BY InitPInv
<1>2. PInv /\ [Next]_vars => PInv'
  BY NextPInv
<1>3. PInv => TokenContinuesPage
  BY DEF PInv
<1>4. QED
  BY <1>1, <1>2, <1>3, PTL DEF Spec

-----------------------------------------------------------------------------
LEMMA InitQInv == Init => QInv
BY InitPInv DEF Init, QInv, NoPage, NoTask

(* The three conjuncts QInv adds to PInv, kept by every step.             *)
LEMMA NextQInv == QInv /\ [Next]_vars => QInv'
<1> SUFFICES ASSUME QInv, [Next]_vars PROVE QInv'
  OBVIOUS
<1>0. /\ PInv /\ TypeOK /\ client <= lastGen /\ TokenContinuesPage
      /\ token = NoToken \/ token.gen \in 1..lastGen
      /\ task.st # "None" => task.gen \in 1..lastGen
      /\ payments # NoPage => payments.gen \in 1..lastGen
      /\ (payments # NoPage /\ payments.gen = client)
             => (token = NoToken \/ token.gen = client)
      /\ (/\ task.st # "None" /\ task.tok # NoToken
          /\ payments # NoPage /\ task.gen = payments.gen)
             => task.tok.idx = payments.idx + 1
  BY DEF QInv, PInv
<1>1. PInv'
  BY <1>0, NextPInv
<1> DEFINE A2 == payments # NoPage => payments.gen \in 1..lastGen
           A3 == (payments # NoPage /\ payments.gen = client)
                     => (token = NoToken \/ token.gen = client)
           A4 == (/\ task.st # "None" /\ task.tok # NoToken
                  /\ payments # NoPage /\ task.gen = payments.gen)
                     => task.tok.idx = payments.idx + 1
<1>2. SUFFICES A2' /\ A3' /\ A4'
  BY <1>1 DEF QInv
<1>3. CASE Serve
  <2>1. /\ UNCHANGED <<client, lastGen, payments, token>>
        /\ task'.gen = task.gen /\ task'.tok = task.tok /\ task'.st # "None"
        /\ task.st = "Sent"
    BY <1>0, <1>3 DEF Serve, TypeOK, Tasks
  <2>2. QED
    BY <1>0, <2>1
<1>4. CASE PollPayments
  <2> DEFINE p == Response(task.gen, task.tok)
  <2>1. task.st = "Ready" /\ task' = NoTask /\ UNCHANGED <<client, lastGen>>
    BY <1>4 DEF PollPayments
  <2>2. A4'
    BY <2>1 DEF NoTask
  <2>3. CASE task.out = "ok"
    <3>1. payments' = p /\ token' = NextToken(p)
      BY <1>4, <2>3 DEF PollPayments
    <3>2. p.gen = task.gen /\ task.gen \in 1..lastGen /\ task.tok \in Refs
      BY <1>0, <2>1 DEF Response, TypeOK, Tasks
    <3>3. p \in Refs
      <4>1. task.gen \in Gens
        BY <1>0, <3>2, PaymentsAssumption DEF TypeOK, Gens
      <4>2. QED
        BY <3>2, <4>1, ResponseType
    <3>4. token' = NoToken \/ token'.gen = p.gen
      BY <3>1, <3>3, NextTokenOfPage
    <3>5. QED
      BY <2>1, <2>2, <3>1, <3>2, <3>4
  <2>4. CASE task.out # "ok"
    <3>1. UNCHANGED <<payments, token>>
      BY <1>4, <2>4 DEF PollPayments
    <3>2. QED
      BY <1>0, <2>1, <2>2, <3>1
  <2>5. QED
    BY <2>3, <2>4
<1>5. CASE LoadMore
  <2>1. /\ UNCHANGED <<client, lastGen, payments, token>>
        /\ FetchPayments(token) /\ task.st = "None" /\ client # 0
        /\ token # NoToken
    BY <1>5 DEF LoadMore, ButtonsShown
  <2>2. task' = [st |-> "Sent", gen |-> client, tok |-> token, out |-> "err"]
    BY <2>1 DEF FetchPayments
  <2>3. ASSUME payments # NoPage, client = payments.gen
        PROVE  token.idx = payments.idx + 1
    <3>1. token.gen = client
      BY <1>0, <2>1, <2>3
    <3>2. payments = [gen |-> client, idx |-> token.idx - 1]
      BY <1>0, <2>1, <3>1 DEF TokenContinuesPage
    <3>3. token \in Refs /\ payments \in Refs
      BY <1>0 DEF TypeOK
    <3>4. QED
      BY <3>2, <3>3 DEF Refs
  <2>4. QED
    BY <1>0, <2>1, <2>2, <2>3
<1>6. CASE OpenHistory
  <2>1. /\ UNCHANGED <<client, lastGen, payments, token>>
        /\ payments = NoPage
    BY <1>6 DEF OpenHistory
  <2>2. QED
    BY <2>1
<1>7. CASE Refresh
  <2>1. /\ UNCHANGED <<client, lastGen, payments>>
        /\ token' = NoToken /\ FetchPayments(NoToken)
        /\ task.st = "None" /\ client # 0
    BY <1>7 DEF Refresh, ButtonsShown
  <2>2. task'.tok = NoToken
    BY <2>1 DEF FetchPayments
  <2>3. QED
    BY <1>0, <2>1, <2>2
<1>8. CASE ConnectFails
  BY <1>0, <1>8 DEF ConnectFails
<1>9. CASE Connect
  <2>1. client' = lastGen + 1 /\ lastGen' = lastGen + 1
    BY <1>9 DEF Connect
  <2>2. UNCHANGED <<task, payments, token>>
    BY <1>9, Zenon DEF Connect
  <2>3. lastGen \in Nat
    BY <1>0, PaymentsAssumption DEF TypeOK, Gens
  <2>4. A2'
    BY <1>0, <2>1, <2>2, <2>3
  <2>5. A3'
    BY <1>0, <2>1, <2>2, <2>3
  <2>6. A4'
    BY <1>0, <2>2
  <2>7. QED
    BY <2>4, <2>5, <2>6
<1>10. CASE Disconnect
  <2>1. payments' = NoPage /\ UNCHANGED <<lastGen, task, token>>
    BY <1>10 DEF Disconnect
  <2>2. QED
    BY <2>1
<1>11. CASE UNCHANGED vars
  BY <1>0, <1>11 DEF vars
<1>12. QED
  BY <1>3, <1>4, <1>5, <1>6, <1>7, <1>8, <1>9, <1>10, <1>11 DEF Next

(* In a state of QInv every step is a PageStep: only PollPayments stores  *)
(* a page, and the page it stores is the one its request asked for.       *)
LEMMA StepPage == QInv /\ [Next]_vars => [PageStep]_vars
<1> SUFFICES ASSUME QInv, [Next]_vars,
                    task.st = "Ready", task.out = "ok", task'.st = "None",
                    payments # NoPage, payments'.gen = payments.gen
             PROVE  payments'.idx \in {1, payments.idx + 1}
  BY DEF PageStep
<1>1. PollPayments
  <2>1. CASE UNCHANGED vars
    BY <2>1 DEF vars
  <2>2. QED
    BY <2>1, Zenon DEF Next, Serve, OpenHistory, Refresh, LoadMore,
       ConnectFails, Connect, Disconnect, FetchPayments, ButtonsShown
<1>2. payments' = Response(task.gen, task.tok)
  BY <1>1 DEF PollPayments
<1>3. task.gen = payments.gen
  BY <1>2 DEF Response
<1>4. task.tok # NoToken => task.tok.idx = payments.idx + 1
  BY <1>3 DEF QInv
<1>5. QED
  BY <1>2, <1>4 DEF Response

(* Every page the poll_task! handler stores over a page of the same       *)
(* connection is the first page or the one after it: Refresh restarts the *)
(* listing and Load More continues it, never skipping or repeating a page, *)
(* whatever the order of clicks, replies and reconnects.                   *)
THEOREM PagesAdvance == Spec => PageAdvances
<1>1. Init => QInv
  BY InitQInv
<1>2. QInv /\ [Next]_vars => QInv'
  BY NextQInv
<1>3. QInv /\ [Next]_vars => [PageStep]_vars
  BY StepPage
<1>4. QED
  BY <1>1, <1>2, <1>3, PTL DEF Spec, PageAdvances

=============================================================================
