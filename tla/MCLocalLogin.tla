---------------------------- MODULE MCLocalLogin ----------------------------
(* Instances of LocalLogin for TLC. *)
EXTENDS LocalLogin, TLC

CONSTANTS root, nobody, ip, q1, q2, p1, p2, s1, s2

(* A code in time and one two periods late. *)
InTime(s) == [secret |-> s, skew |-> 1]
Late(s) == [secret |-> s, skew |-> 2]

Login(n, p, c) == [kind |-> "login", name |-> n, ip |-> ip, typed |-> p, code |-> c]

(* Sign-ins with either password, with and without a code, and with an     *)
(* unknown name; a change; the MFA page; codes to enable, one of them late.*)
SomeForms ==
    {Login(root, p1, Off), Login(root, p2, Off), Login(root, p1, InTime(s1)), Login(nobody, p1, Off)}
        \cup {f \in [kind : {"change"}, name : {root}, typed : Passwords, new : Passwords] :
                  f.typed = p1 /\ f.new = p2}
        \cup [kind : {"page"}, name : {root}]
        \cup [kind : {"enable"}, name : {root}, code : {InTime(s1), Late(s1)}]
=============================================================================
