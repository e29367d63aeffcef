------------------------------ MODULE GPUConfig ------------------------------
(***************************************************************************)
(* From the configuration files of a node to the GPUConfig the plugin runs *)
(* with, and from a GPUConfig to the limits of an MPS client.              *)
(***************************************************************************)
EXTENDS Integers

\* What the JSON file can say of sharing; anything that is no strategy is
\* "other".  A field that is not there has the zero value of its type.
RawConfig == [partitioned : BOOLEAN, maxTimeShared : Int,
              strategy : {"", "time-sharing", "mps", "other"}, maxShared : Int]

Config == [partitioned : BOOLEAN, maxShared : Int,
           strategy : {"", "time-sharing", "mps"}]

NoConfig == [partitioned |-> FALSE, maxTimeShared |-> 0, strategy |-> "", maxShared |-> 0]

\* (Mutated: a strategy needs no number of clients.)
ValidSharingAnyNumber(raw) ==
  \/ raw.maxTimeShared > 0
  \/ raw.strategy \in {"time-sharing", "mps"}
  \/ raw.strategy = "" /\ raw.maxShared <= 0

\* AddDefaultsAndValidate returns no error: a strategy goes with a number of
\* clients, and the deprecated field is enough by itself.
ValidSharing(raw) ==
  \/ raw.maxTimeShared > 0
  \/ raw.strategy \in {"time-sharing", "mps"} /\ raw.maxShared > 0
  \/ raw.strategy = "" /\ raw.maxShared <= 0

\* The deprecated field prevails over the others.
Sharing(raw) ==
  IF raw.maxTimeShared > 0 THEN <<"time-sharing", raw.maxTimeShared>>
                           ELSE <<raw.strategy, raw.maxShared>>

\* main: a configuration that cannot be read or is not valid is replaced as a
\* whole, partition size included.
Configure(raw, readable) ==
  LET accepted == IF readable /\ ValidSharing(raw) THEN raw ELSE NoConfig
  IN  [partitioned |-> accepted.partitioned,
       strategy |-> Sharing(accepted)[1], maxShared |-> Sharing(accepted)[2]]

\* What the device tables assume of a configuration (GPUDevices).
Consistent(config) ==
  config.maxShared > 0 <=> config.strategy \in {"time-sharing", "mps"}

-----------------------------------------------------------------------------

\* (Mutated: shares are rounded up.)
EnvsRoundedUp(config, n, totalMem, unit) ==
  IF config.strategy = "mps"
  THEN [threads |-> (n * 100 + config.maxShared - 1) \div config.maxShared,
        memory  |-> ((n * totalMem) \div config.maxShared) \div unit]
  ELSE [threads |-> 0, memory |-> 0]

\* Envs for n devices of a GPU with totalMem bytes: percents of the threads
\* and memory in units of so many bytes, 0 where no limit is set.
Envs(config, n, totalMem, unit) ==
  IF config.strategy = "mps"
  THEN [threads |-> (n * 100) \div config.maxShared,
        memory  |-> ((n * totalMem) \div config.maxShared) \div unit]
  ELSE [threads |-> 0, memory |-> 0]
=============================================================================
