---------------------------- MODULE MC_Metrics ----------------------------
(* Two connection tasks and latencies 1 and 2 us.                      *)
EXTENDS Metrics, TLC
CONSTANTS t1, t2
MCRecorders == {t1, t2}
\* Recorders are interchangeable: no property names one of them.
RecorderSymmetry == Permutations(MCRecorders)
\* The snapshot task only reads the atomics: no guard and no other variable
\* depends on the values it has loaded (snap), so states that differ only
\* there have the same futures for every property that does not read them.
RecorderView == <<total, successful, failed, sumLat, minLat, maxLat, pc, lat,
                  ok, cur, nreq, spc, doneLats, doneOk, doneFail, doneSum,
                  resetVars>>
=============================================================================
