-------------------------- MODULE MCFrontierUpload --------------------------
EXTENDS FrontierUpload

CONSTANTS w1, w2

Job(b, ws, n, p, f, c, r) ==
    [backend |-> b, workers |-> ws, plan |-> p, frontier |-> f, chunks |-> c, replayed |-> r,
     slots |-> n, mapped |-> [t \in DOMAIN p |-> {}], trusted |-> FALSE]
Mapped(j, m) == [j EXCEPT !.mapped = m]
Trusted(j, m) == [j EXCEPT !.mapped = m, !.trusted = TRUE]

MCJobs == {
    Job("posix", {w1, w2}, 2, <<1, 2>>, <<1, 1>>, <<2, 1>>, {2}),
    Job("posix", {w1}, 2, <<1, 2, 1>>, <<1, 1, 2>>, <<2, 1, 1>>, {}),
    Mapped(Job("cufile", {w1, w2}, 2, <<1, 1>>, <<1, 2>>, <<1, 1>>, {1}), <<{1}, {}>>),
    Mapped(Job("cufile", {w1}, 1, <<1, 1>>, <<1, 2>>, <<2, 1>>, {}), <<{1, 2}, {1}>>),
    Trusted(Job("cufile", {w1}, 2, <<1, 2, 1>>, <<1, 1, 2>>, <<1, 1, 2>>, {}),
            <<{1}, {}, {1}>>)}
=============================================================================
