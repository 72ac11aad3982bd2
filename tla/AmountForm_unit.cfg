SPECIFICATION AmountSpec
CONSTANTS
  Currencies = {c1, c2}
  NoRate = NoRate
INVARIANT FiatNumberStaysFiat
