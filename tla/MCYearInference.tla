-------------------------- MODULE MCYearInference ---------------------------
(* A small instance of YearInference for TLC.                              *)
EXTENDS YearInference

\* The year before the first era, a century that is none, and one that is a
\* leap year.
MCYears == {0, 1} \cup (1898..1901) \cup (1999..2001)

\* The days around every boundary the code mentions.
MCStamped == { <<12, 31>>, <<1, 1>>, <<1, 31>>, <<2, 28>>, <<2, 29>>, <<11, 30>> }
=============================================================================
