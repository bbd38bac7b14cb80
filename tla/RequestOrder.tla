---------------------------- MODULE RequestOrder ----------------------------
(* Requests and their order, the same in MAKNode.h and LAKNode.h: a request *)
(* is known by the pair <<seq, from>>, and operator< compares the pairs.   *)
EXTENDS Integers

Before(r, s) == r[1] < s[1] \/ (r[1] = s[1] /\ r[2] < s[2])

\* *begin() and *rbegin() of a std::set<Message> that is not empty.
Begin(q) == CHOOSE r \in q : \A s \in q : s = r \/ Before(r, s)
Final(q) == CHOOSE r \in q : \A s \in q : s = r \/ Before(s, r)

=============================================================================
