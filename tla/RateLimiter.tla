---------------------------- MODULE RateLimiter ----------------------------
(***************************************************************************)
(* The rate limiter (rate_limiter.rs): the tier, the flag the probe reads, *)
(* and the probe that puts the tier back.  Each report holds the tier's    *)
(* lock throughout; the probe holds none while `gh api rate_limit` runs.   *)
(* No caller in the source reports a worker.                               *)
(***************************************************************************)
VARIABLES
  tier,   \* the RateLimitTier
  flag,   \* the atomic `paused`, which the probe reads
  probe   \* "idle", or "probing" while the API call runs

rateLimiter == <<tier, flag, probe>>

Tiers == {"none", "worker_limited", "orchestrator_limited", "full_hibernate"}

RateInit == tier = "none" /\ flag = FALSE /\ probe = "idle"

IsOrchestratorPaused == tier \in {"orchestrator_limited", "full_hibernate"}

\* Mutation of ReportRateLimit: the flag that wakes the probe is not set.
ReportNoFlag ==
  /\ tier' = CASE tier = "none" -> "orchestrator_limited"
               [] tier = "worker_limited" -> "full_hibernate"
               [] OTHER -> tier
  /\ UNCHANGED <<flag, probe>>

\* report_orchestrator_rate_limit
ReportRateLimit ==
  /\ flag' = TRUE
  /\ tier' = CASE tier = "none" -> "orchestrator_limited"
               [] tier = "worker_limited" -> "full_hibernate"
               [] OTHER -> tier
  /\ UNCHANGED probe

\* The probe's timer ticks while the flag is up.
ProbeStarts ==
  /\ probe = "idle" /\ flag
  /\ probe' = "probing"
  /\ UNCHANGED <<tier, flag>>

\* report_recovery, whatever was reported since the probe started.
ProbeSucceeds ==
  /\ probe = "probing"
  /\ probe' = "idle"
  /\ tier' = "none" /\ flag' = FALSE

ProbeFails ==
  /\ probe = "probing"
  /\ probe' = "idle"
  /\ UNCHANGED <<tier, flag>>
=============================================================================
