------------------------------- MODULE MCRuns -------------------------------
(***************************************************************************)
(* The pool whose threads make the runs, with three threads and three      *)
(* jobs; or what happens in one run over a file in segments, whose sources *)
(* of three segments of sixteen units come in different layouts.  A        *)
(* variable says which of the two is followed.                             *)
(***************************************************************************)
EXTENDS ThreadPool, HlsPipeline

CONSTANTS t1, t2, t3, j1, j2, j3

VARIABLE use    \* "pool" or "run"

mcVars == <<vars, pipelineVars, use>>

MCThreads == {t1, t2, t3}
MCJobs    == {j1, j2, j3}

-----------------------------------------------------------------------------
Pkt(m, p, n, k) == [media |-> m, pos |-> p, len |-> n, key |-> k]
Group(p) == <<Pkt("video", p, 4, p % 12 = 0), Pkt("audio", p, 8, TRUE),
              Pkt("video", p + 4, 4, (p + 4) % 12 = 0)>>
Even     == Group(0) \o Group(8) \o Group(16) \o Group(24) \o Group(32) \o Group(40)

\* Short packets, audio behind video by up to six units, and subtitles.
Video(p) == Pkt("video", p, 2, p % 12 = 0)
Audio(p) == Pkt("audio", p, 2, TRUE)
Title(p) == <<Pkt("subtitle", p, 1, TRUE)>>
Pairs    == [k \in 1..42 |->
                LET p == 2 * ((k - 1) \div 2) IN IF k % 2 = 1 THEN Video(p + 6) ELSE Audio(p)]
Late     == <<Video(0), Video(2), Video(4)>> \o SubSeq(Pairs, 1, 13) \o Title(15)
               \o SubSeq(Pairs, 14, 30) \o Title(33) \o SubSeq(Pairs, 31, 42)
               \o <<Audio(42), Audio(44), Audio(46)>>

\* Every video packet is a key packet.
Intra == [k \in DOMAIN Even |-> [Even[k] EXCEPT !.key = TRUE]]
Sound == SelectSeq(Even, LAMBDA p : p.media = "audio")

Index(v, a) == [m \in AV |-> IF m = "video" THEN v ELSE a]
Setup(input, index, copied) ==
    [input |-> input, copied |-> copied, lag |-> 0, index |-> index,
     cached |-> <<>>, first |-> 0, minSeek |-> 0, prebuffer |-> 0]

\* What an earlier run has left of some segments.
Left(input, segments) ==
    [i \in segments |-> SelectSeq(input, LAMBDA p : SegmentOf(p.pos) = i)]

MCSetups ==
    {Setup(Even, Index(1, 0), {}), Setup(Late, Index(1, 2), {}),
     Setup(Intra, Index(0, 1), {}), Setup(Sound, Index(-1, 1), {}),
     Setup(Intra, Index(1, 0), AV), Setup(Even, Index(1, 0), {"audio"}),
     [Setup(Late, Index(1, 2), {}) EXCEPT !.first = 3],
     [Setup(Even, Index(1, 0), {}) EXCEPT !.lag = 2],
     [Setup(Even, Index(1, 0), {}) EXCEPT !.first = 2, !.cached = Left(Even, {1, 3})],
     [Setup(Even, Index(1, 0), {}) EXCEPT !.minSeek = 1],
     [Setup(Even, Index(1, 0), {}) EXCEPT !.minSeek = 1, !.prebuffer = 1, !.first = 3]}

-----------------------------------------------------------------------------
MCInit ==
    /\ Init /\ PipelineInit /\ use \in {"pool", "run"}
    /\ use = "pool" => setup = CHOOSE u \in Setups : TRUE
Pool(A) == use = "pool" /\ A /\ UNCHANGED <<pipelineVars, use>>
Run(A)  == use = "run" /\ A /\ UNCHANGED <<vars, use>>
MCNext  == Pool(Next) \/ Run(PipelineNext)

\* The fairness of ThreadPool and of HlsPipeline.
MCSpec ==
    /\ MCInit /\ [][MCNext]_mcVars
    /\ \A t \in Threads : WF_mcVars(Pool(Loop(t)))
    /\ \A j \in Jobs : WF_mcVars(Pool(Call(j)))
    /\ WF_mcVars(Pool(NotifyAll)) /\ WF_mcVars(Pool(Join))
    /\ WF_mcVars(Run(Work))

-----------------------------------------------------------------------------
\* RunEnds of HlsPipeline, for a run: the loop over the frame map comes to an end
\* whatever is stacked.
EachRunEnds == use = "run" => RunEnds
=============================================================================
