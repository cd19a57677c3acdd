-------------------------------- MODULE Events --------------------------------
(***************************************************************************)
(* Subscriptions: the mint's websocket clients, what they are told when a   *)
(* quote or a proof they follow changes, and the wallet's invoice command   *)
(* that waits to be told of its payment.                                    *)
(*                                                                         *)
(* A filter is a quote id or a Y; its states are numbered, and 1 is PAID.   *)
(* Every message is sent by a task of its own, in no order.                 *)
(***************************************************************************)
EXTENDS Integers, FiniteSets

CONSTANTS
  Clients,      \* websocket connections
  SubIds,       \* subscription ids, random
  Filters,      \* what can be followed, of one kind
  LastState,    \* bound: the states a filter goes through
  MaxClients,   \* LedgerEventManager.MAX_CLIENTS
  MaxSubs,      \* LedgerEventClientManager.max_subscriptions
  CliClient, CliSub, CliFilter   \* those of the invoice command

ASSUME EventsAssumption == CliClient \in Clients /\ CliFilter \in Filters

VARIABLES
  state,        \* [Filters -> number], in the database
  submitting,   \* changes committed and not yet submitted
  announced,    \* changes submitted in a transaction that has not committed:
                \* the filter, its new state, and to whom
  passedBy,     \* history: <<c, s, f>> that the last change of f was not sent to,
                \* and that had read the state before it was committed
  conn,         \* [Clients -> "none", "open" or "gone"]
  clients,      \* the manager's list
  subs,         \* [Clients -> filters with their ids], which keeps empty ones
  tasks,        \* messages on their way: [c, s, f, v], -1 before the first read
  told,         \* messages that arrived
  cli,          \* the invoice command
  listening,    \* callback_map has its id, the quote is stored
  heard         \* messages its thread has handled

cliVars == <<cli, listening, heard>>
changeVars == <<state, submitting, announced, passedBy>>
mintEventVars == <<changeVars, conn, clients, subs, tasks, told>>
eventVars == <<mintEventVars, cliVars>>

Subscribed(c, f) == {x[2] : x \in {y \in subs[c] : y[1] = f}} \ {"none"}
FiltersOf(c) == {x[1] : x \in subs[c]}

----------------------------------------------------------------------------
(* websocket_endpoint and LedgerEventClientManager.start.                   *)

Connect(c) ==
  /\ conn[c] = "none"
  /\ IF Cardinality(clients) < MaxClients
     THEN conn' = [conn EXCEPT ![c] = "open"] /\ clients' = clients \cup {c}
     ELSE conn' = [conn EXCEPT ![c] = "gone"] /\ UNCHANGED clients
  /\ UNCHANGED <<changeVars, subs, tasks, told, cliVars>>

\* the read fails or times out, and the client is removed; a disconnect that is
\* met while sending is answered by a return, and it is not
Disconnect(c) ==
  /\ conn[c] = "open" /\ conn' = [conn EXCEPT ![c] = "gone"]
  /\ \/ clients' = clients \ {c}
     \/ UNCHANGED clients
  /\ UNCHANGED <<changeVars, subs, tasks, told, cliVars>>

\* mutant: the state is not read when a filter is entered
AddWithoutFirstRead(c, s, fs) ==
  /\ Cardinality(FiltersOf(c)) < MaxSubs
  /\ subs' = [subs EXCEPT ![c] = @ \cup {<<f, s>> : f \in fs} \cup {<<f, "none">> : f \in fs}]
  /\ UNCHANGED tasks

\* add_subscription: the limit counts the filters there are, the empty ones too;
\* each filter is entered before the task that reads its state is made
AddSubscription(c, s, fs) ==
  /\ Cardinality(FiltersOf(c)) < MaxSubs
  /\ subs' = [subs EXCEPT ![c] = @ \cup {<<f, s>> : f \in fs} \cup {<<f, "none">> : f \in fs}]
  /\ tasks' = tasks \cup {[c |-> c, s |-> s, f |-> f, v |-> -1] : f \in fs}

Subscribe(c, s, fs) ==
  /\ conn[c] = "open" /\ fs # {} /\ AddSubscription(c, s, fs)
  /\ \A d \in Clients : \A x \in subs[d] : x[2] # s
  /\ UNCHANGED <<changeVars, conn, clients, told, cliVars>>

\* remove_subscription returns after the first filter it finds the id under
Unsubscribe(c, s) ==
  /\ conn[c] = "open"
  /\ \E f \in FiltersOf(c) :
       /\ s \in Subscribed(c, f)
       /\ subs' = [subs EXCEPT ![c] = @ \ {<<f, s>>}]
       /\ passedBy' = passedBy \ {<<c, s, f>>}
  /\ UNCHANGED <<state, submitting, announced, conn, clients, tasks, told, cliVars>>

\* _init_subscription reads the row, then sends it
InitSubscription(t) ==
  /\ t.v = -1
  /\ tasks' = (tasks \ {t}) \cup {[t EXCEPT !.v = state[t.f]]}
  /\ UNCHANGED <<changeVars, conn, clients, subs, told, cliVars>>

\* _send_obj; to a connection that is gone it raises, in a task nobody awaits
SendObj(t) ==
  /\ t.v # -1 /\ tasks' = tasks \ {t}
  /\ told' = IF conn[t.c] = "open" THEN told \cup {t} ELSE told
  /\ UNCHANGED <<changeVars, conn, clients, subs, cliVars>>

----------------------------------------------------------------------------
(* The ledger changes a row and submits the event: after the commit, inside *)
(* the transaction, or not at all.                                          *)

\* LedgerEventManager.submit: a message for each subscription there is
Messages(f, v) ==
  UNION {{[c |-> c, s |-> s, f |-> f, v |-> v] : s \in Subscribed(c, f)} : c \in clients}

\* the row is locked by its transaction; the command's quote is issued to the
\* command alone
Changeable(f) ==
  /\ state[f] < LastState /\ ~\E a \in announced : a.f = f
  /\ f = CliFilter => cli = "minted" \/ (cli # "idle" /\ state[f] = 0)

\* whom a change of f passes by that was sent to those of `to`
Passed(f, to) ==
  {x \in passedBy : x[3] # f}
  \cup UNION {{<<c, s, f>> : s \in {u \in Subscribed(c, f) :
                 <<c, u>> \notin to /\ [c |-> c, s |-> u, f |-> f, v |-> -1] \notin tasks}} : c \in clients}

\* of a quote in melt, in the settlement and in the listener, and of proofs that
\* are set pending: the event follows the commit
Change(f) ==
  /\ Changeable(f)
  /\ state' = [state EXCEPT ![f] = @ + 1]
  /\ submitting' = submitting \cup {<<f, state'[f]>>}
  /\ passedBy' = {x \in passedBy : x[3] # f}
  /\ UNCHANGED <<announced, conn, clients, subs, tasks, told, cliVars>>

Submit(e) ==
  /\ e \in submitting /\ submitting' = submitting \ {e}
  /\ tasks' = tasks \cup Messages(e[1], e[2])
  /\ UNCHANGED <<state, announced, passedBy, conn, clients, subs, told, cliVars>>

\* _invalidate_proofs and get_mint_quote: the event precedes the commit ...
Announce(f) ==
  /\ Changeable(f)
  /\ announced' = announced \cup {[f |-> f, v |-> state[f] + 1,
                      to |-> UNION {{<<c, s>> : s \in Subscribed(c, f)} : c \in clients}]}
  /\ tasks' = tasks \cup Messages(f, state[f] + 1)
  /\ UNCHANGED <<state, submitting, passedBy, conn, clients, subs, told, cliVars>>

\* ... which may not come: the promises of a swap are signed in the transaction
\* that spends its proofs
EndTransaction(a) ==
  /\ a \in announced /\ announced' = announced \ {a}
  /\ \/ state' = [state EXCEPT ![a.f] = a.v] /\ passedBy' = Passed(a.f, a.to)
     \/ UNCHANGED <<state, passedBy>>
  /\ UNCHANGED <<submitting, conn, clients, subs, tasks, told, cliVars>>

\* _set_mint_quote_pending, the updates of the management RPC, and proofs that
\* are released as if they were spent
ChangeSilently(f) ==
  /\ Changeable(f)
  /\ state' = [state EXCEPT ![f] = @ + 1]
  /\ passedBy' = Passed(f, {})
  /\ UNCHANGED <<submitting, announced, conn, clients, subs, tasks, told, cliVars>>

----------------------------------------------------------------------------
(* The wallet's invoice command.                                            *)

\* request_mint, with a callback when the mint supports websockets
RequestMint ==
  /\ cli = "idle" /\ cli' \in {"asking", "polling"}
  /\ UNCHANGED <<mintEventVars, listening, heard>>

\* SubscriptionManager.subscribe, on a connection made by its thread: the message
\* leaves before the callback is entered and the quote stored
SendSubscribe ==
  /\ cli = "asking" /\ conn[CliClient] = "open"
  /\ AddSubscription(CliClient, CliSub, {CliFilter})
  /\ cli' = "storing"
  /\ UNCHANGED <<changeVars, conn, clients, told, listening, heard>>
StoreQuote ==
  /\ cli = "storing" /\ cli' = "waiting" /\ listening' = TRUE
  /\ UNCHANGED <<mintEventVars, heard>>

\* _on_message and mint_invoice_callback, in the thread: without a callback it
\* raises; the mint may refuse, and nothing tries again
OnMessage ==
  \E t \in told \ heard :
    /\ t.c = CliClient /\ t.s = CliSub
    /\ heard' = heard \cup {t}
    /\ \/ listening /\ t.v = 1 /\ state[CliFilter] = 1 /\ cli' = "minted"
       \/ ~(listening /\ t.v = 1 /\ state[CliFilter] = 1) /\ UNCHANGED cli
    /\ UNCHANGED <<mintEventVars, listening>>

\* the loop that asks for the quote, for five minutes: one with websockets comes
\* to it when it has minted
PollQuote ==
  /\ cli = "polling"
  /\ cli' = IF state[CliFilter] = 1 THEN "minted" ELSE "stopped"
  /\ UNCHANGED <<mintEventVars, listening, heard>>

----------------------------------------------------------------------------
EventsInit ==
  /\ state = [f \in Filters |-> 0] /\ submitting = {} /\ announced = {} /\ passedBy = {}
  /\ conn = [c \in Clients |-> "none"] /\ clients = {} /\ subs = [c \in Clients |-> {}]
  /\ tasks = {} /\ told = {}
  /\ cli = "idle" /\ listening = FALSE /\ heard = {}

EventsNext ==
  \/ \E c \in Clients :
       \/ Connect(c) \/ Disconnect(c)
       \/ \E s \in SubIds : Unsubscribe(c, s) \/ \E fs \in SUBSET Filters : Subscribe(c, s, fs)
  \/ \E t \in tasks : InitSubscription(t) \/ SendObj(t)
  \/ \E f \in Filters : Change(f) \/ Announce(f) \/ ChangeSilently(f)
  \/ \E e \in submitting : Submit(e)
  \/ \E a \in announced : EndTransaction(a)
  \/ RequestMint \/ SendSubscribe \/ StoreQuote \/ OnMessage \/ PollQuote

\* tasks run, the ledger goes on after a commit, and the command and its thread do
EventsFair ==
  /\ WF_eventVars(\E t \in tasks : InitSubscription(t))
  /\ WF_eventVars(\E t \in tasks : SendObj(t))
  /\ WF_eventVars(\E e \in submitting : Submit(e))
  /\ WF_eventVars(\E a \in announced : EndTransaction(a))
  /\ WF_eventVars(Connect(CliClient)) /\ WF_eventVars(SendSubscribe)
  /\ WF_eventVars(StoreQuote) /\ WF_eventVars(OnMessage) /\ WF_eventVars(PollQuote)
EventsSpec == EventsInit /\ [][EventsNext]_eventVars
EventsFairSpec == EventsSpec /\ EventsFair

----------------------------------------------------------------------------
(* Properties.                                                              *)

\* A subscriber that stays connected is told the last state of what it follows,
\* or will be: a message of it has arrived or is under way, however the read of
\* the first message and the changes interleave.  The exceptions are the changes
\* that pass it by: one that is announced before it subscribes and committed
\* after its first read, and one without an event.
SubscriberIsTold ==
  \A c \in clients : conn[c] = "open" =>
    \A f \in FiltersOf(c) : \A s \in Subscribed(c, f) :
      \/ [c |-> c, s |-> s, f |-> f, v |-> state[f]] \in tasks \cup told
      \/ [c |-> c, s |-> s, f |-> f, v |-> -1] \in tasks
      \/ <<f, state[f]>> \in submitting
      \/ <<c, s, f>> \in passedBy

\* That no announced change passes a subscriber by, and that what is told has
\* been committed, does not hold, for events are submitted inside transactions.
NobodyIsPassedBy == passedBy = {}
ToldWhatIs == \A t \in told : t.v <= state[t.f]

\* cli.py, of the loop after the websocket's: "we still check manually every 10
\* seconds".  A payment the command waits for is minted, or the command stops.
CheckedManually ==
  (cli \in {"waiting", "storing"} /\ state[CliFilter] = 1) ~> (cli \in {"minted", "stopped"})

=============================================================================
