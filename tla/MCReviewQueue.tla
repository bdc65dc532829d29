---------------------------- MODULE MCReviewQueue ----------------------------
(* Small instances of ReviewQueue for TLC.                                   *)
EXTENDS ReviewQueue

\* One installed repository with one pull request.
OneRepo == {<<1, 0, Installed>>, <<1, 7, Installed>>}
\* An installed repository, and the same and another one tracked as external.
Mixed   == {<<1, 0, Installed>>, <<1, 7, Installed>>,
            <<1, 7, External>>, <<2, 7, External>>}
=============================================================================
