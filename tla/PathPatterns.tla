---------------------------- MODULE PathPatterns ----------------------------
(***************************************************************************)
(* How the swarm compares file patterns (db/swarm.go: hasPathOverlap,      *)
(* trimGlob, hasPathPrefix). A path is the sequence of its components; a   *)
(* pattern is a path followed by a trailing glob, which may be empty:      *)
(* "src/api" is [base |-> <<"src", "api">>, glob |-> ""], "src/**" is      *)
(* [base |-> <<"src">>, glob |-> "/**"] and "**" has an empty base. A glob *)
(* in the middle of a pattern is an ordinary component to this code, and   *)
(* is left out: patterns are directory-level locks (db/swarm.go:864).      *)
(***************************************************************************)
EXTENDS Naturals, Sequences

\* Stripping trailing '*' and '/' leaves the base.
trimGlob(p) == p.base

\* A prefix that ends at a path boundary.
hasPathPrefix(s, prefix) ==
  /\ Len(prefix) <= Len(s)
  /\ \A i \in 1..Len(prefix) : s[i] = prefix[i]

\* Mutant of hasPathOverlap: a directory reserved after a file below it.
hasPathOverlapOneWay(a, b) ==
  /\ trimGlob(a) # <<>> /\ trimGlob(b) # <<>>
  /\ hasPathPrefix(trimGlob(a), trimGlob(b))

hasPathOverlap(a, b) ==
  /\ trimGlob(a) # <<>> /\ trimGlob(b) # <<>>
  /\ \/ hasPathPrefix(trimGlob(a), trimGlob(b))
     \/ hasPathPrefix(trimGlob(b), trimGlob(a))

\* Two lists of patterns conflict when a pattern of one equals, or overlaps
\* with, a pattern of the other.
Conflicting(ps, qs) == \E p \in ps, q \in qs : p = q \/ hasPathOverlap(p, q)

\* The files a pattern stands for: all those under its base.
Covers(p, file) == hasPathPrefix(file, p.base)
=============================================================================
