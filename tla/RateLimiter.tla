----------------------------- MODULE RateLimiter -----------------------------
(***************************************************************************)
(* RateLimiter (monitoring/ratelimit.py): at most `limit` calls of a key   *)
(* in a window that starts with its first call.  The chat of the terminal  *)
(* has one, with one key for all its clients.                              *)
(***************************************************************************)
EXTENDS Integers, Sequences

CONSTANTS Keys, Limit, Window

ASSUME LimiterAssumption == Limit \in Nat \ {0} /\ Window \in Nat \ {0}

VARIABLES
  clock,    \* time.monotonic()
  windows,  \* _windows: key -> <<window_start, count>>
  granted   \* history: the calls allowed of a key, as <<time, window_start>>

limiter == <<clock, windows, granted>>

LimiterInit ==
  /\ clock = 0 /\ windows = [k \in {} |-> <<0, 0>>]
  /\ granted = [k \in Keys |-> <<>>]

NewLimiter ==
  /\ clock' = 0 /\ windows' = [k \in {} |-> <<0, 0>>]
  /\ granted' = [k \in Keys |-> <<>>]

\* Mutant: a window also ends when its limit is reached.
CurrentRefilled(k) ==
  IF k \notin DOMAIN windows \/ clock - windows[k][1] >= Window \/ windows[k][2] >= Limit
  THEN <<clock, 0>> ELSE windows[k]

\* The window a call at this moment falls in.
Current(k) ==
  IF k \notin DOMAIN windows \/ clock - windows[k][1] >= Window THEN <<clock, 0>>
  ELSE windows[k]

Counted(k, w) == [j \in DOMAIN windows \cup {k} |-> IF j = k THEN w ELSE windows[j]]

Allow(k) ==
  LET w == Current(k)
  IN /\ w[2] < Limit
     /\ windows' = Counted(k, <<w[1], w[2] + 1>>)
     /\ granted' = [granted EXCEPT ![k] = Append(@, <<clock, w[1]>>)]
     /\ UNCHANGED clock

Refuse(k) ==
  /\ Current(k)[2] >= Limit
  /\ windows' = Counted(k, Current(k))
  /\ UNCHANGED <<clock, granted>>

Elapses(t) == t > clock /\ clock' = t /\ UNCHANGED <<windows, granted>>

\* Around a window's end twice the limit may pass, and never more: among any
\* 2 * Limit + 1 successive calls allowed, the first and the last are more than a
\* window apart.
TwiceTheLimit ==
  \A k \in Keys : \A n \in 1..Len(granted[k]) :
    n + 2 * Limit \in 1..Len(granted[k]) => granted[k][n + 2 * Limit][1] - granted[k][n][1] > Window
===============================================================================
