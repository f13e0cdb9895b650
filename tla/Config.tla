------------------------------- MODULE Config -------------------------------
(***************************************************************************)
(* The global configuration: what GlobalConfig::load makes of config.yaml, *)
(* which a person writes by hand and `githubclaw start` writes when it is  *)
(* missing.  A file gives each key a value at the top ("flat") and another *)
(* one in a section ("nested"); each is absent, a number, or something     *)
(* that is not a number.  The keys that hold text or lists are left out.   *)
(***************************************************************************)
EXTENDS Integers

CONSTANTS
  Absent, Text,     \* no value under a key; a value that is not a number
  Damaged,          \* a file that is not YAML at all, or one cut short
  RetrySpan         \* how many numbers a u32 has (2^32; TLC's integers end at 2^31)

ASSUME RetrySpanAssumption == RetrySpan \in Nat \ {0}

\* What u16 has room for.
PortSpan == 65536

Keys == {"port", "max_concurrent_agents", "global_timeout", "orchestrator_idle_timeout", "drain_timeout",
         "recovery_probe_interval", "max_retry", "max_concurrent_orchestrators", "max_concurrent_workers"}

\* What the keys say in a file that is YAML.
IsDoc(file) == file \in [Keys -> [flat : Nat \cup {Absent, Text}, nested : Nat \cup {Absent, Text}]]

\* GlobalConfig::default, with the values of constants.rs.
Default == [port |-> 8000, max_concurrent_agents |-> 5, global_timeout |-> 7200, orchestrator_idle_timeout |-> 1800,
            drain_timeout |-> 300, recovery_probe_interval |-> 300, max_retry |-> 3,
            max_concurrent_orchestrators |-> 4, max_concurrent_workers |-> 8]

\* A document that says nothing, which is also what a damaged one is read as.
EmptyDoc == [k \in Keys |-> [flat |-> Absent, nested |-> Absent]]

\* get_flat_or_nested_u64: a flat value that is no number hides the nested one.
Lookup(doc, k) == IF doc[k].flat # Absent THEN doc[k].flat ELSE doc[k].nested

\* The cast to the field's type.
Cast(k, n) == CASE k = "port" -> n % PortSpan
                [] k = "max_retry" -> n % RetrySpan
                [] OTHER -> n

\* The value of a field before validation.
Field(doc, k) == IF Lookup(doc, k) \in {Absent, Text} THEN Default[k] ELSE Cast(k, Lookup(doc, k))

\* GlobalConfig::validate: these five may not be zero.
NonZero == {"port", "max_concurrent_agents", "global_timeout", "drain_timeout", "recovery_probe_interval"}

Validated(cfg) == [k \in Keys |-> IF k \in NonZero /\ cfg[k] = 0 THEN Default[k] ELSE cfg[k]]

\* Mutation of Load: validation before the casts.
LoadCastsLast(file) ==
  LET doc == IF file = Damaged THEN EmptyDoc ELSE file
      wide == [k \in Keys |-> IF Lookup(doc, k) \in {Absent, Text} THEN Default[k] ELSE Lookup(doc, k)]
  IN [k \in Keys |-> Cast(k, Validated(wide)[k])]

\* GlobalConfig::load of a file that is there and can be read.
Load(file) == LET doc == IF file = Damaged THEN EmptyDoc ELSE file IN Validated([k \in Keys |-> Field(doc, k)])

\* GlobalConfig::save: every field, flat.
Saved(cfg) == [k \in Keys |-> [flat |-> cfg[k], nested |-> Absent]]
=============================================================================
