SPECIFICATION Spec
CONSTANTS
  Mails = {mail, stranger, poison}
  Strangers = {stranger}
  Poison = {poison}
  Providers = {"imap", "resend"}
  Cycles = {c1, c2}
  MaxTracked = 1
  MaxFaults = 2
  Faults = {"list", "fetch", "license", "invoke", "mark", "crash"}
INVARIANTS OneRunPerMail NothingDropped
PROPERTIES EveryMailIsFinished
CHECK_DEADLOCK FALSE
