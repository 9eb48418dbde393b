--------------------------------- MODULE Atm ---------------------------------
(***************************************************************************)
(* The actors of src/concurrent/day08-actor/Actor: the cash machine (atm), *)
(* the bank and the interface, each a thread with a queue of messages, and *)
(* main, which sends the keys that are pressed to the atm.                 *)
(*                                                                         *)
(* An actor waits for a message that its state has a handler for; a        *)
(* message without one is dropped.  close_queue is an exception that ends  *)
(* the actor.  Messages that only make the interface print a text are left *)
(* out: what counts is the money and the card.                             *)
(***************************************************************************)
EXTENDS Integers, Sequences, FiniteSets

CONSTANTS
    Pin,            \* the right PIN, a sequence of digits
    Digits,         \* the digits that are pressed
    Deposit,        \* the balance at the start
    Amount,         \* what withdraw_pressed asks for
    MaxCards,       \* bound: cards inserted
    MaxQueue        \* bound: keys are pressed while fewer messages wait

ASSUME AtmAssumption ==
    /\ Pin \in Seq(Digits) /\ Len(Pin) > 0
    /\ Deposit \in Nat /\ Amount \in Nat \ {0} /\ MaxCards \in Nat /\ MaxQueue \in Nat

Actors == {"atm", "bank", "interface"}

VARIABLES
    queue,          \* the messages of each actor
    running,        \* the actors that have not been closed
    state,          \* the member function the atm is in
    pin,
    balance,
    user,           \* what main does: it reads keys, closes the actors, joins them
    cards,          \* cards inserted so far
    \* History.  A question carries the number of its card, and so does the answer.
    session,        \* the card the atm is at work for
    issued,         \* how often the interface has issued money
    cancelled,      \* the states that cancel_pressed has left while an answer was due
    stale           \* the states that took the answer to a question of an earlier card

vars == <<queue, running, state, pin, balance, user, cards, session, issued, cancelled, stale>>

Message(type, s) == [type |-> type, session |-> s]
Key(type) == Message(type, 0)
Digit(d) == [type |-> "digit_pressed", session |-> 0, digit |-> d]
VerifyPin(p) == [type |-> "verify_pin", session |-> session, pin |-> p]

Init ==
    /\ queue = [a \in Actors |-> <<>>]
    /\ running = Actors
    /\ state = "waiting_for_card"
    /\ pin = <<>>
    /\ balance = Deposit
    /\ user = "reading"
    /\ cards = 0
    /\ session = 0
    /\ issued = 0
    /\ cancelled = {}
    /\ stale = {}

-----------------------------------------------------------------------------
(* Dispatching *)

send(a, msg) == queue' = [queue EXCEPT ![a] = Append(@, msg)]

\* The actor takes its next message, and sends each actor the messages in sent.
Takes(a, sent) ==
    queue' = [b \in Actors |-> (IF b = a THEN Tail(queue[b]) ELSE queue[b]) \o sent[b]]
Nothing == [b \in Actors |-> <<>>]
To(b, m) == [Nothing EXCEPT ![b] = <<m>>]
Question(type) == Message(type, session)

Next_(a) == Head(queue[a])
HasMessage(a) == a \in running /\ queue[a] # <<>>

\* close_queue is not handled by any state: it is thrown through run.
Close(a) ==
    /\ HasMessage(a) /\ Next_(a).type = "close_queue"
    /\ Takes(a, Nothing)
    /\ running' = running \ {a}
    /\ UNCHANGED <<state, pin, balance, user, cards, session, issued, cancelled, stale>>

-----------------------------------------------------------------------------
(* The atm *)

Handles ==
    [waiting_for_card |-> {"card_inserted"},
     getting_pin |-> {"digit_pressed", "cancel_pressed"},
     verifying_pin |-> {"pin_verified", "pin_incorrect", "cancel_pressed"},
     wait_for_action |-> {"withdraw_pressed", "balance_pressed", "cancel_pressed"},
     process_withdrawal |-> {"withdraw_ok", "withdraw_denied", "cancel_pressed"},
     process_balance |-> {"balance", "cancel_pressed"},
     done_processing |-> {}]

\* States that wait for the bank.
Asked == {"verifying_pin", "process_withdrawal", "process_balance"}

\* The handler for the next message, in state s, if that is its type.
On(s, type) ==
    /\ state = s /\ HasMessage("atm") /\ Next_("atm").type = type
    /\ stale' = IF s \in Asked /\ type # "cancel_pressed" /\ Next_("atm").session # session
                THEN stale \cup {s} ELSE stale
    /\ UNCHANGED <<running, balance, user, cards, issued>>

Drop ==
    /\ HasMessage("atm") /\ state # "done_processing"
    /\ Next_("atm").type \notin Handles[state] \cup {"close_queue"}
    /\ Takes("atm", Nothing)
    /\ UNCHANGED <<running, state, pin, balance, user, cards, session, issued, cancelled, stale>>

waiting_for_card ==
    /\ On("waiting_for_card", "card_inserted")
    /\ Takes("atm", Nothing)
    /\ pin' = <<>>
    /\ session' = session + 1
    /\ state' = "getting_pin"
    /\ UNCHANGED cancelled

\* The bug of an atm that has the PIN verified but does not wait for the answer.
getting_pin_NoWait ==
    /\ On("getting_pin", "digit_pressed")
    /\ pin' = Append(pin, Next_("atm").digit)
    /\ IF Len(pin') = Len(Pin)
       THEN /\ Takes("atm", To("bank", VerifyPin(pin')))
            /\ state' = "wait_for_action"
       ELSE Takes("atm", Nothing) /\ UNCHANGED state
    /\ UNCHANGED <<session, cancelled>>

\* The digit that completes the PIN has it verified.
getting_pin ==
    /\ On("getting_pin", "digit_pressed")
    /\ pin' = Append(pin, Next_("atm").digit)
    /\ IF Len(pin') = Len(Pin)
       THEN /\ Takes("atm", To("bank", VerifyPin(pin')))
            /\ state' = "verifying_pin"
       ELSE Takes("atm", Nothing) /\ UNCHANGED state
    /\ UNCHANGED <<session, cancelled>>

\* The bug of one state for both answers.
verifying_pin_Copied ==
    /\ On("verifying_pin", "pin_verified") \/ On("verifying_pin", "pin_incorrect")
    /\ state' = "wait_for_action"
    /\ Takes("atm", Nothing)
    /\ UNCHANGED <<pin, session, cancelled>>

verifying_pin ==
    /\ \/ On("verifying_pin", "pin_verified") /\ state' = "wait_for_action"
       \/ On("verifying_pin", "pin_incorrect") /\ state' = "done_processing"
    /\ Takes("atm", Nothing)
    /\ UNCHANGED <<pin, session, cancelled>>

wait_for_action ==
    /\ \/ /\ On("wait_for_action", "withdraw_pressed")
          /\ Takes("atm", To("bank", Question("withdraw")))
          /\ state' = "process_withdrawal"
       \/ /\ On("wait_for_action", "balance_pressed")
          /\ Takes("atm", To("bank", Question("get_balance")))
          /\ state' = "process_balance"
    /\ UNCHANGED <<pin, session, cancelled>>

process_withdrawal ==
    /\ \/ /\ On("process_withdrawal", "withdraw_ok")
          /\ Takes("atm", [To("interface", Question("issue_money"))
                           EXCEPT !["bank"] = <<Question("withdrawal_processed")>>])
       \/ On("process_withdrawal", "withdraw_denied") /\ Takes("atm", Nothing)
    /\ state' = "done_processing"
    /\ UNCHANGED <<pin, session, cancelled>>

process_balance ==
    /\ On("process_balance", "balance")
    /\ Takes("atm", Nothing)
    /\ state' = "wait_for_action"
    /\ UNCHANGED <<pin, session, cancelled>>

\* In every state with a card; the bank is told of a withdrawal only.
cancel ==
    /\ \E s \in DOMAIN Handles : "cancel_pressed" \in Handles[s] /\ On(s, "cancel_pressed")
    /\ Takes("atm", IF state = "process_withdrawal"
                    THEN To("bank", Question("cancel_withdrawal")) ELSE Nothing)
    /\ cancelled' = cancelled \cup ({state} \cap Asked)
    /\ state' = "done_processing"
    /\ UNCHANGED <<pin, session>>

done_processing ==
    /\ "atm" \in running /\ state = "done_processing"
    /\ send("interface", Message("eject_card", session))
    /\ state' = "waiting_for_card"
    /\ UNCHANGED <<running, pin, balance, user, cards, session, issued, cancelled, stale>>

\* done_processing takes no message, so it is left before the atm can be closed.
Atm ==
    \/ waiting_for_card \/ getting_pin \/ verifying_pin \/ wait_for_action
    \/ process_withdrawal \/ process_balance \/ cancel \/ done_processing \/ Drop
    \/ state # "done_processing" /\ Close("atm")

-----------------------------------------------------------------------------
(* The bank and the interface *)

Answer(type) == To("atm", Message(type, Next_("bank").session))

BankOn(type) ==
    /\ HasMessage("bank") /\ Next_("bank").type = type
    /\ UNCHANGED <<running, state, pin, user, cards, session, issued, cancelled, stale>>

\* The bug of a bank that gives without taking.
BankWithdraw_KeepsBalance ==
    /\ BankOn("withdraw")
    /\ Takes("bank", Answer(IF balance >= Amount THEN "withdraw_ok" ELSE "withdraw_denied"))
    /\ UNCHANGED balance

BankVerify ==
    /\ BankOn("verify_pin")
    /\ Takes("bank", Answer(IF Next_("bank").pin = Pin THEN "pin_verified" ELSE "pin_incorrect"))
    /\ UNCHANGED balance

BankWithdraw ==
    /\ BankOn("withdraw")
    /\ Takes("bank", Answer(IF balance >= Amount THEN "withdraw_ok" ELSE "withdraw_denied"))
    /\ balance' = IF balance >= Amount THEN balance - Amount ELSE balance

BankBalance == BankOn("get_balance") /\ Takes("bank", Answer("balance")) /\ UNCHANGED balance

\* The bank only prints that a withdrawal was processed, or cancelled.
BankHears ==
    /\ BankOn("withdrawal_processed") \/ BankOn("cancel_withdrawal")
    /\ Takes("bank", Nothing)
    /\ UNCHANGED balance

Bank == BankVerify \/ BankWithdraw \/ BankBalance \/ BankHears \/ Close("bank")

Interface ==
    \/ /\ HasMessage("interface") /\ Next_("interface").type # "close_queue"
       /\ issued' = issued + (IF Next_("interface").type = "issue_money" THEN 1 ELSE 0)
       /\ Takes("interface", Nothing)
       /\ UNCHANGED <<running, state, pin, balance, user, cards, session, cancelled, stale>>
    \/ Close("interface")

-----------------------------------------------------------------------------
(* main *)

Press ==
    /\ user = "reading" /\ Len(queue["atm"]) < MaxQueue
    /\ \/ \E d \in Digits : send("atm", Digit(d)) /\ UNCHANGED cards
       \/ \E k \in {"balance_pressed", "withdraw_pressed", "cancel_pressed"} :
            send("atm", Key(k)) /\ UNCHANGED cards
       \/ cards < MaxCards /\ send("atm", Key("card_inserted")) /\ cards' = cards + 1
    /\ UNCHANGED <<running, state, pin, balance, user, session, issued, cancelled, stale>>

\* The bug of a main that forgets to close the atm.
Quit_KeepsAtm ==
    /\ \/ user = "reading" /\ user' = "bank" /\ UNCHANGED queue
       \/ user = "bank" /\ send("bank", Key("close_queue")) /\ user' = "interface"
       \/ user = "interface" /\ send("interface", Key("close_queue")) /\ user' = "joining"
       \/ user = "joining" /\ running = {} /\ user' = "ended" /\ UNCHANGED queue
    /\ UNCHANGED <<running, state, pin, balance, cards, session, issued, cancelled, stale>>

\* q: the bank is closed first.
Quit ==
    /\ \/ user = "reading" /\ user' = "bank" /\ UNCHANGED queue
       \/ user = "bank" /\ send("bank", Key("close_queue")) /\ user' = "atm"
       \/ user = "atm" /\ send("atm", Key("close_queue")) /\ user' = "interface"
       \/ user = "interface" /\ send("interface", Key("close_queue")) /\ user' = "joining"
       \/ user = "joining" /\ running = {} /\ user' = "ended" /\ UNCHANGED queue
    /\ UNCHANGED <<running, state, pin, balance, cards, session, issued, cancelled, stale>>

Next == Atm \/ Bank \/ Interface \/ Press \/ Quit

Spec == Init /\ [][Next]_vars

MainQuits == user # "reading" /\ Quit

\* The actors run; nobody has to press q, but main goes on after that.
FairSpec ==
    /\ Spec
    /\ WF_vars(Atm) /\ WF_vars(Bank) /\ WF_vars(Interface)
    /\ WF_vars(MainQuits)

-----------------------------------------------------------------------------
\* The messages of a queue that have one of the types.
Count(q, types) == Cardinality({i \in DOMAIN q : q[i].type \in types})

\* Money given out, on its way to the interface, or granted.
Withdrawals == issued + Count(queue["interface"], {"issue_money"})
                      + Count(queue["atm"], {"withdraw_ok"})
Out == Amount * Withdrawals

\* No money comes from nowhere.  It is lost only if a withdrawal is cancelled while
\* the bank is at it: the bank has taken it from the balance, the atm drops the
\* answer, and the bank takes no notice of the cancellation.
MoneyLostOnlyByCancel ==
    /\ balance + Out <= Deposit
    /\ balance + Out < Deposit => "process_withdrawal" \in cancelled

\* The atm acts on a wrong PIN only if an earlier card was taken out while its PIN
\* was being verified: the answer then counts for the next one.
ActionNeedsPin ==
    state \in {"wait_for_action", "process_withdrawal", "process_balance"} /\ pin # Pin =>
        "verifying_pin" \in stale /\ "verifying_pin" \in cancelled

\* That a PIN is awaited before anything else keeps the other answers in step: a
\* withdrawal or a balance is answered for another card only if a PIN has been.
OnlyPinGoesAstray == stale # {} => "verifying_pin" \in stale

\* After q all three actors end, whatever they were waiting for.
QuitEnds == user # "reading" ~> user = "ended"

-----------------------------------------------------------------------------
(* The inductive invariant behind these *)

Keys == {"card_inserted", "digit_pressed", "balance_pressed", "withdraw_pressed",
         "cancel_pressed"}
Questions == {"verify_pin", "withdraw", "get_balance"}
Answers == {"pin_verified", "pin_incorrect", "withdraw_ok", "withdraw_denied", "balance"}
News == {"withdrawal_processed", "cancel_withdrawal", "issue_money", "eject_card",
         "close_queue"}

Messages ==
    [type : (Keys \cup Questions \cup Answers \cup News) \ {"digit_pressed", "verify_pin"},
     session : Nat]
    \cup [type : {"digit_pressed"}, session : {0}, digit : Digits]
    \cup [type : {"verify_pin"}, session : Nat, pin : Seq(Digits)]

TypeOK ==
    /\ queue \in [Actors -> Seq(Messages)]
    /\ running \subseteq Actors
    /\ state \in DOMAIN Handles
    /\ pin \in Seq(Digits)
    /\ balance \in Int
    /\ user \in {"reading", "bank", "atm", "interface", "joining", "ended"}
    /\ cards \in Nat /\ session \in Nat /\ issued \in Nat
    /\ cancelled \subseteq Asked /\ stale \subseteq Asked

Msgs(q, types) == {m \in {q[i] : i \in DOMAIN q} : m.type \in types}

\* Questions and answers that are on their way.
Due == Msgs(queue["bank"], Questions) \cup Msgs(queue["atm"], Answers)
PinMsgs == {"verify_pin", "pin_verified", "pin_incorrect"}
MoneyMsgs == {"withdraw", "withdraw_ok", "withdraw_denied"}
CountDue(types) == Count(queue["bank"], types \cap Questions)
                   + Count(queue["atm"], types \cap Answers)

\* The sessions of the messages of these types never fall.
Ascending(q, types) ==
    \A i, j \in DOMAIN q :
        i < j /\ q[i].type \in types /\ q[j].type \in types => q[i].session <= q[j].session

\* The bank answers in the order of the questions.
InOrder ==
    /\ \A m \in Due : m.session <= session
    /\ Ascending(queue["bank"], Questions) /\ Ascending(queue["atm"], Answers)
    /\ \A m \in Msgs(queue["atm"], Answers), n \in Msgs(queue["bank"], Questions) :
        m.session <= n.session

\* What is asked, or answered, of this card's PIN is about the PIN that was entered.
AboutPin ==
    \A m \in Due : m.session = session =>
        /\ m.type = "verify_pin" => state # "getting_pin" /\ m.pin = pin
        /\ m.type = "pin_verified" => state # "getting_pin" /\ pin = Pin

Acting == {"wait_for_action", "process_withdrawal", "process_balance"}

\* Until a stale answer about a PIN is taken, the atm acts on the right PIN and all
\* that is asked while it acts is about the card it acts for.
InStep ==
    "verifying_pin" \notin stale =>
        /\ stale = {}
        /\ state \in Acting => pin = Pin /\ \A m \in Due : m.session = session

\* Until a question about a PIN is cancelled, one is asked when the atm waits for
\* the answer and at no other time, and it is about the card in the atm.
PinInStep ==
    "verifying_pin" \notin cancelled =>
        /\ CountDue(PinMsgs) = IF state = "verifying_pin" THEN 1 ELSE 0
        /\ \A m \in Due : m.type \in PinMsgs => m.session = session
        /\ "verifying_pin" \notin stale

\* The same for withdrawals, and nothing is lost.
MoneyInStep ==
    /\ balance + Out <= Deposit
    /\ "process_withdrawal" \notin cancelled =>
        /\ CountDue(MoneyMsgs) = IF state = "process_withdrawal" THEN 1 ELSE 0
        /\ balance + Out = Deposit

IInv == TypeOK /\ InOrder /\ AboutPin /\ InStep /\ PinInStep /\ MoneyInStep
=============================================================================
