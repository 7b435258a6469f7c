CONSTANTS
  Fd <- MCFd
  Listener = 0
  SetSize = 3
  Timer = {t1, t2}
  Period = {1, 2}
  Ms = 2
  MaxStep = 1
SPECIFICATION Spec
INVARIANTS TablesAgree SleepsUntilTimer
PROPERTY TimersServed
