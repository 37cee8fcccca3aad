--------------------------- MODULE SessionChain ---------------------------
(***************************************************************************)
(* What a login session promises, whatever the database does underneath:   *)
(* a family of refresh tokens is a chain.  It is opened by one token, each  *)
(* step replaces its only live token by a token never seen before, and once *)
(* it is ended no token of it works again.                                  *)
(***************************************************************************)
CONSTANT Token     \* refresh tokens; a family is named after its first token

VARIABLES live,    \* live[f]: the tokens of family f that still work
          spent    \* spent[f]: the tokens of family f that were used or revoked

chainVars == <<live, spent>>

Known(t) == \E f \in Token : t \in live[f] \cup spent[f]

Init == /\ live = [f \in Token |-> {}]
        /\ spent = [f \in Token |-> {}]

Open(f) == /\ ~ Known(f)
           /\ live[f] = {}
           /\ spent[f] = {}
           /\ live' = [live EXCEPT ![f] = {f}]
           /\ UNCHANGED spent

Advance(f, old, new) == /\ live[f] = {old}
                        /\ ~ Known(new)
                        /\ live' = [live EXCEPT ![f] = {new}]
                        /\ spent' = [spent EXCEPT ![f] = @ \cup {old}]

End(f, old) == /\ live[f] = {old}
               /\ live' = [live EXCEPT ![f] = {}]
               /\ spent' = [spent EXCEPT ![f] = @ \cup {old}]

Next == \E f \in Token : \/ Open(f)
                         \/ \E old, new \in Token : Advance(f, old, new)
                         \/ \E old \in Token : End(f, old)

Spec == Init /\ [][Next]_chainVars
=============================================================================
