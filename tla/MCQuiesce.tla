---------------------------- MODULE MCQuiesce ----------------------------
\* A daemon that respawns, has a pre-stop script and whose stopping event may be
\* held, a job that starts on the end of the session and is slow to be killed,
\* and a job without main process but with a post-start script.
EXTENDS Quiesce

MCClass       == {"daemon", "saver", "target"}
MCStartOn     == [c \in MCClass |-> IF c = "saver" THEN {"session-end"}
                                    ELSE IF c = "target" THEN {"other"} ELSE {}]
MCKillTimeout == [c \in MCClass |-> IF c = "saver" THEN 3 ELSE 1]
=============================================================================
