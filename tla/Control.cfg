SPECIFICATION FairControl
CONSTANTS
  Pid = {1, 2}
  Ctl = {c1, c2}
  MaxDeaths = 1
INVARIANTS ControlTypeOK OneDaemon PidFileNamesDaemon NoStalePidFile DisabledIsStopped 
PROPERTY EnableStartsDaemon
