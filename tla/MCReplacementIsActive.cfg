SPECIFICATION Spec
CONSTANTS
  c1 = c1
  c2 = c2
  w1 = w1
  w2 = w2
  t1 = t1
  t2 = t2
  t3 = t3
  Creds = {c1, c2}
  Accredited = {c1}
  Workers = {w1, w2}
  TxIds = {t1, t2, t3}
  NoCred = NoCred
  NoTx = NoTx
PROPERTIES ReplacementIsActive
