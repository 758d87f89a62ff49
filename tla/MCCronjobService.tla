--------------------------- MODULE MCCronjobService ---------------------------
(* CronjobService for TLC: models with two start events each. *)
EXTENDS CronjobService

CONSTANTS hourly, daily

\* Versions of a process model: one cronjob, two of them, two with the same
\* crontab, one that is invalid, none.
SomeVersions == {<<hourly, Off>>, <<daily, hourly>>, <<hourly, hourly>>, <<Invalid, daily>>,
                 <<Off, Off>>}
=============================================================================
