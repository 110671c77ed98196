------------------------------ MODULE Capacity ------------------------------
(***************************************************************************)
(* The size arithmetic of CreateVolume and ControllerExpandVolume          *)
(* (driver/capacity.go, driver/defaults.go).  The constants have the names *)
(* of the Go constants; the code's values are 2^30, giB, 2^14 giB and      *)
(* 16 giB bytes.                                                           *)
(***************************************************************************)
EXTENDS Integers

CONSTANTS giB, minimumVolumeSizeInBytes, maximumVolumeSizeInBytes,
          defaultVolumeSizeInBytes

ASSUME CapacityAssumption ==
  /\ giB \in Nat \ {0}
  /\ minimumVolumeSizeInBytes \in Nat \ {0}
  /\ maximumVolumeSizeInBytes \in Nat
  /\ defaultVolumeSizeInBytes \in minimumVolumeSizeInBytes..maximumVolumeSizeInBytes

\* Mutant: a limit below the requirement is not refused.
getStorageSizeFromCapacityRange_LimitFirst(required, limit) ==
  IF required <= 0 /\ limit <= 0 THEN defaultVolumeSizeInBytes
  ELSE IF limit > 0 THEN limit
  ELSE required

\* Mutant: any number but 0 counts as set.
getStorageSizeFromCapacityRange_NegativeSet(required, limit) ==
  IF required = 0 /\ limit = 0 THEN defaultVolumeSizeInBytes
  ELSE IF required # 0 /\ limit # 0 /\ limit < required THEN 0
  ELSE IF required # 0 THEN required ELSE limit

\* The size for a capacity range; 0 stands for an error, as in the Go function.
\* A bound that is 0 or negative, or in a range that is absent, is not set.
getStorageSizeFromCapacityRange(required, limit) ==
  LET requiredSet == 0 < required
      limitSet == 0 < limit
      refused == \/ requiredSet /\ limitSet /\ limit < required
                 \/ limitSet /\ limit < minimumVolumeSizeInBytes
                 \/ requiredSet /\ required > maximumVolumeSizeInBytes
                 \/ ~requiredSet /\ limit > maximumVolumeSizeInBytes
  IN  IF ~requiredSet /\ ~limitSet THEN defaultVolumeSizeInBytes
      ELSE IF refused THEN 0
      ELSE IF ~limitSet /\ required < minimumVolumeSizeInBytes
           THEN minimumVolumeSizeInBytes
      ELSE IF requiredSet THEN required ELSE limit
=============================================================================
