------------------------------ MODULE Billing ------------------------------
(***************************************************************************)
(* The arithmetic of money: PriceList.cost_usd of app/services/pricing.py, *)
(* the column usage_logs.cost_usd, and the conversions of cost_report in   *)
(* app/services/usage.py.                                                  *)
(*                                                                         *)
(* Decimals are integers in the units the code quantizes to: dollars in    *)
(* 10^-8 (USD_PLACES, Numeric(14, 8)), roubles in 10^-6 (RUB_PLACES), a    *)
(* price in 10^-3 dollars per million tokens, the exchange rate in         *)
(* hundredths.  The exact price of a request is then an integer number of  *)
(* 10^-9 dollars.                                                          *)
(***************************************************************************)
EXTENDS Integers

DaysPerMonth == 30

\* The integer nearest to n / d, as PostgreSQL stores a numeric: ties away from zero.
RoundHalfUp(n, d) == (2 * n + d) \div (2 * d)

\* The integer nearest to n / d, as Decimal.quantize does it: ties to even.
RoundHalfEven(n, d) ==
    LET q == n \div d
        r == n % d
    IN  IF 2 * r < d \/ (2 * r = d /\ q % 2 = 0) THEN q ELSE q + 1

\* cost_usd of a model that has a price, in 10^-9 dollars.
ExactCost(price, input, output) == input * price.input + output * price.output

\* ... and as usage_logs keeps it, in 10^-8 dollars.
StoredCost(price, input, output) == RoundHalfUp(ExactCost(price, input, output), 10)

\* rub() of cost_report
Rub(usd, rate) == RoundHalfEven(usd * rate, 10000)

DailyAverage(total, days) == RoundHalfEven(total, days)

\* Mutant of Projected: the month of the projection has 31 days.
ProjectedOver31(total, days) == DailyAverage(total, days) * 31

\* projected_monthly_usd: the rounded daily average times 30.
Projected(total, days) == DailyAverage(total, days) * DaysPerMonth

============================================================================
