---------------------------- MODULE MCReadiness ----------------------------
(* Small instances of Readiness for TLC.                                   *)
EXTENDS Readiness

CONSTANTS postgres, redis, one, two

Both == {postgres, redis}

\* ready_redis_required is off
OnlyPostgres == {postgres}
=============================================================================
