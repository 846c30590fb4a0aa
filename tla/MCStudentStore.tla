-------------------------- MODULE MCStudentStore --------------------------
(* Small instances of StudentStore: the CSV job, the API job, a manual run. *)
EXTENDS StudentStore, TLC

CONSTANTS csv, api, cli

\* A file as a source delivers it, and the chunks of n rows it is read in.
Source(w, rows) ==
    [k \in DOMAIN rows |-> [id |-> rows[k][1], at |-> rows[k][2],
                            ok |-> rows[k][3], from |-> w, no |-> k]]
InChunks(file, n) ==
    [c \in 1 .. (Len(file) + n - 1) \div n |->
        SubSeq(file, (c - 1) * n + 1, IF c * n > Len(file) THEN Len(file) ELSE c * n)]
Good(i, t) == <<i, t, TRUE>>

\* All the CSV files of three rows about two students, in chunks of every size,
\* against one page of the API that has both.
AnyRowOf == {Good(1, 1), Good(1, 2), Good(2, 1), Good(2, 2), <<1, 2, FALSE>>}
ApiPage  == Source(api, <<Good(2, 2), Good(1, 1)>>)
TwoSources ==
    {csv :> InChunks(Source(csv, file), n) @@ api :> <<ApiPage>> @@ cli :> <<>> :
        file \in [1 .. 3 -> AnyRowOf], n \in 1 .. 3}

\* The CSV job and the API job submit two chunks each about three students, and
\* a manual run repeats rows of the CSV job at the same time.
ThreeSources ==
    {csv :> InChunks(Source(csv, <<Good(1, 2), Good(1, 1), Good(2, 1),
                                   Good(2, 1), Good(1, 2), Good(3, 2)>>), 3)
     @@ api :> InChunks(Source(api, <<Good(1, 1), Good(2, 1),
                                      Good(2, 2), Good(3, 2)>>), 2)
     @@ cli :> InChunks(Source(cli, <<Good(3, 1), Good(2, 1), Good(1, 2)>>), 3)}

Files == TwoSources \cup ThreeSources
=============================================================================
