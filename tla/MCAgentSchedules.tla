--------------------------- MODULE MCAgentSchedules ---------------------------
(* Small instances of AgentSchedules.                                          *)
EXTENDS AgentSchedules, TLC

(* Every minute, every other minute, and one with a gap beyond the horizon.    *)
MCCrons == LET minutes == {t \in 0 .. MaxTime + TicksPerMinute : t % TicksPerMinute = 0}
           IN {minutes, {t \in minutes : t % (2 * TicksPerMinute) = 0},
               {0, 3 * TicksPerMinute}}
===============================================================================
