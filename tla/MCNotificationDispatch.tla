----------------------- MODULE MCNotificationDispatch -----------------------
(* Instances of NotificationDispatch for TLC.                              *)
EXTENDS NotificationDispatch, TLC

\* No intent's text is too long, or the oldest one's, or the last one's.
MCAllFit   == {}
MCOldestIs == {1}
MCLastIs   == {Intents}

\* Runs are alike, and so are the owner's requests.
RunSymmetry == Permutations(Worker) \cup Permutations(Retrier)
=============================================================================
