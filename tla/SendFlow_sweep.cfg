SPECIFICATION Spec
CONSTANTS
  w1 = w1  w2 = w2  p1 = p1  r1 = r1  r2 = r2  pay1 = pay1  pay2 = pay2
  Wallets = {w1}
  Payees = {p1}
  Amounts = {1, 2}
  Fees = {1}
  Routes = {r1}
  Payments = {pay1}
  None = None
INVARIANT SweepAsReviewed
