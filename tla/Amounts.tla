------------------------------ MODULE Amounts ------------------------------
(***************************************************************************)
(* Money: the split of a booking's price into deposit and final amount     *)
(* (services/bookingService.ts), and of a captured amount into platform    *)
(* fee and provider's share (lib/payments/commission.ts).                  *)
(*                                                                         *)
(* A price is a count of grains, `grain` to the paisa: the request schema  *)
(* accepts any positive number, not just whole paise.  The code computes   *)
(* in binary floating point, where a number that lies halfway between two  *)
(* paise is a little above or below it, so rounding may go either way.     *)
(* Amounts of whole paise survive the way to rupees and back unchanged:    *)
(* they are bounded by 100000 rupees, far from where a float loses paise.  *)
(***************************************************************************)
EXTENDS Integers

\* n / d rounded to the nearest integer, up or down when it is halfway.
RoundUp(n, d)   == (2 * n + d) \div (2 * d)
RoundDown(n, d) == (2 * n + d - 1) \div (2 * d)
Nearest(n, d)   == {RoundDown(n, d), RoundUp(n, d)}

\* The column is Decimal(10, 2): PostgreSQL rounds half up.
StoredAmount(price, grain) == RoundUp(price, grain)

\* Mutant of SplitAmounts: the final amount is rounded from half the price too.
SplitAmountsInHalves(price, grain) ==
    {[deposit |-> half, final |-> half, estimated |-> StoredAmount(price, grain)] :
        half \in Nearest(price, 2 * grain)}

\* splitAmounts and the insert: what the three columns may be for a price.
SplitAmounts(price, grain) ==
    UNION {{[deposit |-> half, final |-> final, estimated |-> StoredAmount(price, grain)] :
                final \in Nearest(price - half * grain, grain)} :
              half \in Nearest(price, 2 * grain)}

\* Mutant of SplitCommission: the fee is rounded to full rupees.
SplitCommissionInRupees(gross, rate, scale) ==
    {[fee |-> 100 * fee, share |-> gross - 100 * fee] :
        fee \in Nearest(gross * rate, 100 * scale)}

\* splitGrossCommissionPaise, for a commission of rate / scale of the gross.
SplitCommission(gross, rate, scale) ==
    {[fee |-> fee, share |-> gross - fee] : fee \in Nearest(gross * rate, scale)}

=============================================================================
