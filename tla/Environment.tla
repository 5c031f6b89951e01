----------------------------- MODULE Environment -----------------------------
(***************************************************************************)
(* What the variable pool promises a client that keeps the rules: a        *)
(* session begins with the columns of the database and with no handle, a   *)
(* command binds its handles to objects nobody else has, a name keeps its  *)
(* object until it is defined again, and the next session sees every       *)
(* column.  A client that breaks a rule loses the promise for good.        *)
(***************************************************************************)
CONSTANTS Columns, Handles, Objects, Null

VARIABLES
    session,    \* a client is being served
    catalog,    \* [Columns -> Objects \cup {Null}]: the columns there are
    env,        \* what each name stands for in the session
    trusted     \* every client kept the rules so far

vars == <<session, catalog, env, trusted>>

Names == Columns \cup Handles
Unbound == [n \in Names |-> Null]
Visible == [n \in Names |-> IF n \in Columns THEN catalog[n] ELSE Null]

Init ==
    /\ session = FALSE
    /\ catalog \in [Columns -> Objects \cup {Null}]
    /\ env = Unbound
    /\ trusted = TRUE

Begin ==
    /\ ~session
    /\ session' = TRUE
    /\ env' = Visible
    /\ UNCHANGED <<catalog, trusted>>

End ==
    /\ session
    /\ session' = FALSE
    /\ env' = Unbound
    /\ UNCHANGED <<catalog, trusted>>

\* Objects of a definition are new: no other name stands for them.
Bind(defs) ==
    /\ session
    /\ env' = [n \in Names |-> IF n \in DOMAIN defs THEN defs[n] ELSE env[n]]
    /\ \A h \in DOMAIN defs, n \in Names :
           n # h /\ env'[n] # Null => env'[n] # defs[h]
    /\ UNCHANGED <<session, catalog, trusted>>

Define(h) == \E o \in Objects : Bind([n \in {h} |-> o])

DefineTwo(g, h) == \E o, p \in Objects : Bind([n \in {g, h} |-> IF n = g THEN o ELSE p])

Declare(c) ==
    /\ session
    /\ catalog[c] = Null
    /\ \E o \in Objects :
           /\ \A n \in Names : env[n] # o
           /\ catalog' = [catalog EXCEPT ![c] = o]
           /\ env' = [env EXCEPT ![c] = o]
    /\ UNCHANGED <<session, trusted>>

\* A rule is broken, or the server has stopped: nothing is promised any more.
Lose ==
    /\ trusted' = FALSE
    /\ session' \in BOOLEAN
    /\ catalog' \in [Columns -> Objects \cup {Null}]
    /\ env' \in [Names -> Objects \cup {Null}]

Next ==
    \/ Lose
    \/ /\ trusted
       /\ \/ Begin \/ End
          \/ \E h \in Handles : Define(h)
          \/ \E g, h \in Handles : g # h /\ DefineTwo(g, h)
          \/ \E c \in Columns : Declare(c)

Spec == Init /\ [][Next]_vars
===============================================================================
