--------------------------- MODULE MCUsenetStaging ---------------------------
(* Small posts and situations for UsenetStaging.                            *)
EXTENDS UsenetStaging, TLC

CONSTANTS s1, s2

A(n, f, p, ps, fs, m) == [num |-> n, file |-> f, part |-> p, parts |-> ps,
                          files |-> fs, par2 |-> FALSE, merit |-> m]
Par2(n, f, p, ps, fs) == [A(n, f, p, ps, fs, 1) EXCEPT !.par2 = TRUE]

\* One file of four parts; of which the server has one, or three.
Single == {A(n, 0, n, 4, 0, 1) : n \in 1..4}
Stub   == {a \in Single : a.part = 1}
Torn   == {a \in Single : a.part < 4}
\* Three parts, the second of them posted again worse.
Repost == {A(1, 0, 1, 3, 0, 1), A(2, 0, 2, 3, 0, 2), A(3, 0, 2, 3, 0, 1),
           A(4, 0, 3, 3, 0, 1)}
\* A header without a number, a file of two parts, a par2 file.
Multi  == {A(1, 0, 0, 1, 2, 1), A(2, 1, 1, 2, 2, 1), A(3, 1, 2, 2, 2, 1),
           Par2(4, 2, 1, 1, 2)}
\* The same without a data part, without the par2, without the data file.
MultiTorn   == {a \in Multi : a.num # 3}
MultiNoPar2 == {a \in Multi : a.num # 4}
MultiAbsent == {A(1, 1, 1, 1, 2, 1), Par2(2, 0, 1, 2, 2), Par2(3, 0, 2, 2, 2)}
\* A small file before a larger one.
Growing == {A(1, 1, 1, 1, 2, 1), A(3, 2, 1, 2, 2, 1), A(5, 2, 2, 2, 2, 1)}

Calm(p, S)  == [post |-> p, stagers |-> S, clock |-> FALSE, faults |-> {},
                salvage |-> TRUE, junk |-> FALSE]
Aging(p)    == [Calm(p, {s1}) EXCEPT !.clock = TRUE]
Faulty(p)   == [Aging(p) EXCEPT !.faults = {"batch", "builder"}]
Usual == {Calm(p, {s1, s2}) : p \in {Single, Multi}}
         \cup {Aging(p) : p \in {Single, Repost}}
         \cup {Faulty(p) : p \in {Stub, Torn, Multi, MultiTorn, MultiNoPar2,
                                  MultiAbsent}}
         \cup {[Faulty(Single) EXCEPT !.salvage = FALSE],
               [Aging(Single) EXCEPT !.junk = TRUE], [Faulty(Torn) EXCEPT !.junk = TRUE],
               [Aging(Stub) EXCEPT !.faults = {"batch", "span"}]}
Racing   == {Calm(Growing, {s1, s2})}
=============================================================================
