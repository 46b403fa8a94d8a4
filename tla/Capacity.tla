------------------------------ MODULE Capacity ------------------------------
(***************************************************************************)
(* internal/driver/controller.go: the storage reservation a capacity range *)
(* asks for, and internal/retycclient/client.go: how it is written on the  *)
(* command line of the CLI.  A size is a number of bytes, 0 stands for an  *)
(* unset one (GetRequiredBytes, GetLimitBytes) and for no reservation.     *)
(***************************************************************************)
EXTENDS Integers

CONSTANTS
  MinDataroomCapacity,  \* the smallest reservation the Retyc API accepts
  Kibi                  \* 1 << 10

ASSUME FloorAssumption == MinDataroomCapacity \in Nat \ {0}
ASSUME KibiAssumption == Kibi \in Nat \ {0, 1}

CapacityRanges == [required : Int, limit : Int]

Unset(r) == r.required = 0 /\ r.limit = 0

-----------------------------------------------------------------------------
Refuse(c) == [code |-> c, bytes |-> 0]

Grant(n) == [code |-> "OK", bytes |-> n]

(* max(required, MinDataroomCapacity): below its floor the API answers 422. *)
RoundedUp(n) == IF n > MinDataroomCapacity THEN n ELSE MinDataroomCapacity

(* reservedBytes: the required bytes rounded up, no reservation without a  *)
(* range.                                                                  *)
ReservedBytes(r) ==
  IF r.required < 0 \/ r.limit < 0 THEN Refuse("InvalidArgument")
  ELSE IF r.limit > 0 /\ r.required > r.limit THEN Refuse("OutOfRange")
  ELSE IF Unset(r) THEN Grant(0)
  ELSE IF r.limit > 0 /\ r.limit < MinDataroomCapacity THEN Refuse("OutOfRange")
  ELSE Grant(RoundedUp(r.required))

(* What a range allows: a capacity the API takes, at least what is         *)
(* required and at most the limit.                                         *)
Allows(r, n) ==
  \/ Unset(r)
  \/ n >= MinDataroomCapacity /\ n >= r.required /\ (r.limit > 0 => n <= r.limit)

-----------------------------------------------------------------------------
(* The units of FormatSize, the largest first: TiB, GiB, MiB, KiB, B.      *)
Units == 1..5

Size == <<Kibi * Kibi * Kibi * Kibi, Kibi * Kibi * Kibi, Kibi * Kibi, Kibi, 1>>

Divides(u, n) == n % Size[u] = 0

(* FormatSize: the count of the largest unit that divides n exactly.       *)
FormatSize(n) ==
  LET unit == IF n = 0 THEN 5
              ELSE CHOOSE u \in Units : Divides(u, n) /\ \A w \in 1..(u - 1) : ~ Divides(w, n)
  IN [count |-> n \div Size[unit], unit |-> unit]

(* ui.ParseSize of the CLI. *)
ParseSize(s) == s.count * Size[s.unit]

(* What the service gets of a size. *)
Sent(n) == ParseSize(FormatSize(n))
=============================================================================
