------------------------------- MODULE Lease -------------------------------
(***************************************************************************)
(* backend/internal/lease: the pure transition of one named lease.  A row  *)
(* is never deleted; acquiring a free or expired lease mints the next      *)
(* epoch, renewing keeps it and releasing only expires the row.            *)
(***************************************************************************)
EXTENDS Integers

CONSTANT NoHolder   \* the empty holder of a seeded row

Row(holder, epoch, expiresAtMs) ==
    [holder |-> holder, epoch |-> epoch, expiresAtMs |-> expiresAtMs]

SeedRow == Row(NoHolder, 0, 0)

Expired(cur, nowMs) == cur.expiresAtMs <= nowMs

\* Acquire succeeds on an expired row, whoever holds it; otherwise ErrHeld.
CanAcquire(cur, nowMs) == Expired(cur, nowMs)
\* Mutant: the epoch is not bumped.
Acquired_SameEpoch(cur, holder, nowMs, ttlMs) == Row(holder, cur.epoch, nowMs + ttlMs)
Acquired(cur, holder, nowMs, ttlMs) == Row(holder, cur.epoch + 1, nowMs + ttlMs)

\* Mutant: the holder is not compared.
CanRenew_AnyHolder(cur, holder, nowMs) == ~Expired(cur, nowMs)
\* Renew by anyone but the holder is ErrNotHolder, after expiry ErrExpired.
CanRenew(cur, holder, nowMs) == cur.holder = holder /\ ~Expired(cur, nowMs)
Renewed(cur, nowMs, ttlMs) == Row(cur.holder, cur.epoch, nowMs + ttlMs)

\* Release by a non-holder is a silent no-op.
Released(cur, holder, nowMs) ==
    IF cur.holder = holder THEN Row(cur.holder, cur.epoch, nowMs) ELSE cur
=============================================================================
