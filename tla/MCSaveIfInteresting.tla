-------------------------- MODULE MCSaveIfInteresting --------------------------
EXTENDS SaveIfInteresting

\* Every way through the verdict without sanitizers, and each abstraction with and
\* without checksums in normal mode.
MCConfigs == {c \in Config :
    /\ (c.san = "none" /\ c.ignore) => ~c.keep /\ ~c.generous
    /\ c.san # "none" => c.crash_mode = "ok" /\ ~c.ignore /\ ~c.keep /\ c.generous}

\* The filter for unique traces under a schedule that computes no checksums.
MCSand == {c \in MCConfigs : c.san = "unique" /\ ~c.fast}

================================================================================
