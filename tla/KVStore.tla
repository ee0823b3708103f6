------------------------------ MODULE KVStore ------------------------------
(***************************************************************************)
(* What MemcacheClient promises its caller (MemcacheClient.h:66-86), as an *)
(* abstract key-value store.  A call takes effect at most once, while it   *)
(* is in progress or, if the client gives it up, later or never; a call    *)
(* that succeeds returns the answer to that very call.                     *)
(*                                                                         *)
(* The promise has two exceptions.  A reply of which the end is missing    *)
(* returns a value that nobody has stored, and puts its client in doubt:   *)
(* until it has a new connection its calls may return anything.  A request *)
(* of which the end is missing may store such a value, and the store is    *)
(* astray as long as the server goes on with that connection: it may do    *)
(* what nobody has asked for.                                              *)
(***************************************************************************)
CONSTANTS Clients, Keys, Values, NoValue,
          Garbled,       \* stands for any value, whoever may have sent it
          CallNumbers,   \* each call of a client has a number of its own
          NoCall,        \* no call in progress
          Pending, Lost  \* a call without an answer yet, or without one for ever

VARIABLES
  store,     \* the value under each key, or NoValue
  call,      \* the call each client has in progress, or NoCall
  answer,    \* what the call is going to return, once it has taken effect
  outcome,   \* what the last call of each client returned
  unsettled, \* the Set calls that were given up and may yet take effect
  inDoubt,   \* the clients whose calls may return anything
  astray     \* may the server do what nobody has asked for?

vars == <<store, call, answer, outcome, unsettled, inDoubt, astray>>

Results == [ok : BOOLEAN, value : Values \cup {NoValue, Garbled}]
Failed  == [ok |-> FALSE, value |-> NoValue]

\* A request that the server takes: an empty value cannot be set.
Valid(k) == k.op = "set" => k.value # NoValue

\* The answer to call k, and the store after it.
AnswerTo(k, s) == IF k.op = "get"
                  THEN [ok |-> s[k.key] # NoValue, value |-> s[k.key]]
                  ELSE [ok |-> TRUE, value |-> NoValue]
After(k, s) == IF k.op = "set" THEN [s EXCEPT ![k.key] = k.value] ELSE s

\* The same without the end of the message.
CutAnswer(a) == IF a.ok THEN [a EXCEPT !.value = Garbled] ELSE a
AfterCut(key, s) == [s EXCEPT ![key] = Garbled]

Init ==
  /\ store = [k \in Keys |-> NoValue]
  /\ call = [c \in Clients |-> NoCall]
  /\ answer = [c \in Clients |-> Lost]
  /\ outcome = [c \in Clients |-> Failed]
  /\ unsettled = {}
  /\ inDoubt = {}
  /\ astray = FALSE

Invoke(c) ==
  /\ call[c] = NoCall
  /\ \E n \in CallNumbers, op \in {"get", "set"}, key \in Keys,
        v \in Values \cup {NoValue} :
       call' = [call EXCEPT ![c] = [n |-> n, op |-> op, key |-> key, value |-> v]]
  /\ \E a \in {Pending, Lost} : answer' = [answer EXCEPT ![c] = a]
  /\ UNCHANGED <<store, outcome, unsettled, inDoubt, astray>>

\* The answer to the call of a client in doubt does not reach it as one.
Effect(c) ==
  /\ call[c] # NoCall /\ answer[c] = Pending /\ Valid(call[c])
  /\ store' = After(call[c], store)
  /\ answer' = [answer EXCEPT ![c] = IF c \in inDoubt THEN Lost
                                     ELSE AnswerTo(call[c], store)]
  /\ UNCHANGED <<call, outcome, unsettled, inDoubt, astray>>

\* A call that was given up takes effect after all.
LateEffect ==
  \E w \in unsettled :
    /\ store' = After(w[2], store)
    /\ unsettled' = unsettled \ {w}
    /\ UNCHANGED <<call, answer, outcome, inDoubt, astray>>

\* Connections break, or the server loses its way on one: calls and answers on
\* them are lost.
Lose ==
  /\ \E lost \in SUBSET Clients :
       answer' = [c \in Clients |-> IF c \in lost THEN Lost ELSE answer[c]]
  /\ unsettled' \in SUBSET unsettled
  /\ astray' \in BOOLEAN
  /\ UNCHANGED <<store, call, outcome, inDoubt>>

\* A Set takes effect without the end of its value.
CutEffect(c) ==
  /\ call[c] # NoCall /\ call[c].op = "set" /\ answer[c] = Pending /\ Valid(call[c])
  /\ store' = AfterCut(call[c].key, store)
  /\ answer' = [answer EXCEPT ![c] = IF c \in inDoubt THEN Lost
                                     ELSE AnswerTo(call[c], store)]
  /\ unsettled' \in SUBSET unsettled
  /\ astray' = TRUE
  /\ UNCHANGED <<call, outcome, inDoubt>>

\* So does one that was given up, and the call behind it is lost.
LateCutEffect ==
  \E w \in unsettled :
    /\ store' = AfterCut(w[2].key, store)
    /\ answer' \in {answer, [answer EXCEPT ![w[1]] = Lost]}
    /\ unsettled' \in SUBSET (unsettled \ {w})
    /\ astray' = TRUE
    /\ UNCHANGED <<call, outcome, inDoubt>>

\* The server does on the connection of client c what nobody has asked for, and
\* answers it.
Stray(c) ==
  /\ astray
  /\ store' \in {store} \cup {AfterCut(k, store) : k \in Keys}
  /\ \/ /\ inDoubt' = inDoubt \cup {c}
        /\ answer' \in {answer, [answer EXCEPT ![c] = Lost]}
     \/ UNCHANGED <<inDoubt, answer>>
  /\ UNCHANGED <<call, outcome, unsettled, astray>>

\* The call returns its answer, or is given up; the client may be in doubt
\* afterwards.
Return(c) ==
  /\ call[c] # NoCall
  /\ call' = [call EXCEPT ![c] = NoCall]
  /\ answer' = [answer EXCEPT ![c] = Lost]
  /\ \/ /\ answer[c] \notin {Pending, Lost}
        /\ outcome' = [outcome EXCEPT ![c] = answer[c]]
        /\ UNCHANGED <<unsettled, inDoubt>>
     \/ /\ outcome' = [outcome EXCEPT ![c] = Failed]
        /\ unsettled' \in {unsettled, unsettled \cup {<<c, call[c]>>}}
        /\ inDoubt' \in {inDoubt, inDoubt \cup {c}}
  /\ UNCHANGED <<store, astray>>

\* A Get returns its answer without the end of the value.
ReturnCut(c) ==
  /\ call[c] # NoCall /\ call[c].op = "get" /\ answer[c] \notin {Pending, Lost}
  /\ call' = [call EXCEPT ![c] = NoCall]
  /\ answer' = [answer EXCEPT ![c] = Lost]
  /\ outcome' = [outcome EXCEPT ![c] = CutAnswer(answer[c])]
  /\ inDoubt' = inDoubt \cup {c}
  /\ UNCHANGED <<store, unsettled, astray>>

\* The call of a client in doubt returns anything.
ReturnInDoubt(c) ==
  /\ call[c] # NoCall /\ c \in inDoubt
  /\ call' = [call EXCEPT ![c] = NoCall]
  /\ answer' = [answer EXCEPT ![c] = Lost]
  /\ \E r \in Results : outcome' = [outcome EXCEPT ![c] = r]
  /\ unsettled' \in {unsettled, unsettled \cup {<<c, call[c]>>}}
  /\ UNCHANGED <<store, inDoubt, astray>>

\* A new connection: the client is in doubt no longer.
Renew(c) ==
  /\ call[c] = NoCall
  /\ inDoubt' = inDoubt \ {c}
  /\ UNCHANGED <<store, call, answer, outcome, unsettled, astray>>

\* A call that is not sent at all.
Refuse(c) ==
  /\ call[c] = NoCall
  /\ outcome' = [outcome EXCEPT ![c] = Failed]
  /\ UNCHANGED <<store, call, answer, unsettled, inDoubt, astray>>

Next == \/ \E c \in Clients : \/ Invoke(c) \/ Effect(c) \/ Return(c) \/ Refuse(c)
                             \/ CutEffect(c) \/ ReturnCut(c)
                             \/ Stray(c) \/ ReturnInDoubt(c) \/ Renew(c)
        \/ LateEffect \/ LateCutEffect \/ Lose

Spec == Init /\ [][Next]_vars
=============================================================================
