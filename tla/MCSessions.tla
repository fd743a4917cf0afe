------------------------------ MODULE MCSessions ------------------------------
(***************************************************************************)
(* Sessions on small instances: one account, room for others, and names    *)
(* two registrations can clash over.                                       *)
(***************************************************************************)
EXTENDS Sessions, TLC

CONSTANTS ann, bob, eve, t1, t2, t3, c1, c2, c3

MCNames    == {"ann", "ann@x", "bob", "bob@x", "eve"}
MCAccounts ==
  [u \in Users |-> IF u = ann
     THEN [username |-> "ann", email |-> "ann@x", active |-> TRUE] ELSE Null]

MCGrants ==
  [t \in Tokens |-> IF t = t1
     THEN [owner |-> ann, expires |-> 0, revoked |-> FALSE] ELSE Null]

Join(name, email) == [op |-> "Register", username |-> name, email |-> email]
Enter(name, u)    == [op |-> "Login", identifier |-> name, password |-> u]
Renew(t)          == [op |-> "Refresh", token |-> t]
Leave(t)          == [op |-> "Logout", token |-> t]

\* t1 is held by ann at the start, t2 is drawn by some call or by none.  Two
\* registrations clash over an address.
VisitMenu ==
  {Join("bob", "bob@x"), Join("eve", "bob@x"), Enter("ann", ann),
   Enter("bob@x", bob), Renew(t1), Renew(t2), Leave(t1), Leave(t2)}

TwiceMenu == {Renew(t1)}
=============================================================================
