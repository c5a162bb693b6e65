------------------------------ MODULE MCServices ------------------------------
(* The services for TLC: the smallest instances in which their hazards meet. *)
EXTENDS Services, TLC

CONSTANTS a1, r1, n1, c1, w1, w2, k1, k2, l1, l2, l3, e1, e2, h1, h3,
          x1, sum, skl, cv, in, out, far, u1, u2, byhand, x, b,
          p1, s1, s2, t1, t2, i1, q1, q2, g1, g2,
          o1, o2, o3, o4, o5, o6, cat, own1, own2, v1, ch, m1, m2, srch, y1

\* Two sources: one of two pages, of which one case takes the first, and one that
\* repeats a posting of it under another employer's name
MCPages == [s \in {"board", "feed"} |->
              IF s = "board" THEN <<{l1}, {l3}>> ELSE <<{l2}>>]
MCPosting  == (l1 :> 1) @@ (l2 :> 1) @@ (l3 :> 2)
MCEmployer == (l1 :> e1) @@ (l2 :> e2) @@ (l3 :> e1)
MCUrl      == (l1 :> h1) @@ (l2 :> h1) @@ (l3 :> h3)
MCWanted   == (k1 :> {l1, l2, l3}) @@ (k2 :> {l1, l2})

\* An answer is made of one claim, of the one entry that was there at the start
MCSentences == {[kind |-> "claim", cites |-> {x1}, figure |-> FALSE]}

\* Two uploads of the same bytes, which say the same thing
MCBytes == [u \in Uploads |-> b]
MCSays  == [u \in Uploads |-> {x}]

\* Six postings, of which the board lists some at first and the others may appear; one
\* that cannot be read, and two search words with a posting that both find
MCListed == <<o1, o2, o3, o4, o5, o6>>
MCFinds  == <<{o1, o2, o3, o4, o6}, {o3, o5}>>
=============================================================================
