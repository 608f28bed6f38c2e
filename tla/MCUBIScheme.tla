----------------------------- MODULE MCUBIScheme -----------------------------
(* Bounds and starting points for model-checking UBIScheme. StartedSpec    *)
(* starts from a scheme that has just been started at noon, funded and     *)
(* with every user whitelisted, and leaves out the DAO's one-time steps.   *)
EXTENDS UBIScheme, TLC

UserSymmetry == Permutations(Users)

StartedInit ==
  /\ poolStatus = "active" /\ ubi = ThisScheme /\ claimAmount = InitialAward
  /\ \E f \in Deposits :
       balance = [h \in Holders |-> IF h = "ubi" THEN f
                                    ELSE IF h = "pool" THEN InitialAward ELSE 0]
  /\ now = Noon
  /\ whitelisted = Users /\ registered = TRUE
  /\ status = "active" /\ periodStart = Noon
  /\ currentDay = 0 /\ lastWithdrawDay = 0
  /\ dailyUbi = 0 /\ dailyCyclePool = 0
  /\ cycleLength = InitialCycleLength /\ currentCycleLength = 0
  /\ startOfCycle = Noon
  /\ shouldWithdrawFromDAO = FALSE
  /\ activeUsersCount = 0
  /\ lastClaimed = [u \in Users |-> 0]
  /\ fishedUsersAddresses = {}
  /\ claimDay = [d \in Days |-> NoClaims]
  /\ dailyUBIHistory = << >>
  /\ totalClaimsPerUser = [u \in Users |-> 0]

StartedNext ==
  \/ UserNext
  \/ setDay
  \/ Tick
  \/ \E amount \in Deposits : Deposit("ubi", amount)
  \/ \E length \in CycleLengths : setCycleLength(length)

StartedSpec == StartedInit /\ [][StartedNext]_vars
=============================================================================
