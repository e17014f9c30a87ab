------------------------------ MODULE MCRelease ------------------------------
(* Instances of Release for TLC.                                            *)
EXTENDS Release, TLC

CONSTANTS w1, w2, pageA, pageB, threads, bluesky, podcast, first, answer

TwoWorkers == {w1, w2}
RunOne == {1}
ThreadsOnly == {threads}
PodcastOnly == {podcast}
BlueskyOnly == {bluesky}

\* One page, announced on Threads and Bluesky by every run that drafts it.
OneMessage == {first}
OnePage == {pageA}
OnePageOf == first :> pageA
OneDeployed == pageA :> 1
TwoChannels == {threads, bluesky}
TwoChannelOrder == threads :> 1 @@ bluesky :> 2

\* An announcement and a content post, which is a podcast episode too.
TwoMessages == {first, answer}
TwoPages == {pageA, pageB}
TwoPageOf == first :> pageA @@ answer :> pageB
TwoDeployed == pageA :> 1 @@ pageB :> 1
AnswerOnly == {answer}
ThreeChannels == {threads, bluesky, podcast}
ThreeChannelOrder == threads :> 1 @@ bluesky :> 2 @@ podcast :> 3
=============================================================================
