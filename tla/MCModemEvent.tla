---------------------------- MODULE MCModemEvent ----------------------------
(* Model values for ModemEvent: times in ticks scaled down from MODEM_HZ   *)
(* so that they keep the order RING_ON_MIN < RING_OFF_MIN < RING_ON_MAX <  *)
(* RING_OFF_MAX of modem.c, and a bound on the clock.                      *)
EXTENDS ModemEvent

MCRingOnMin == 1
MCRingOffMin == 3
MCRingOnMax == 4
MCRingOffMax == 5
\* ring pulses 2 ticks apart: 20 Hz ringing reported at MODEM_HZ = 100
\* comes 5 ticks apart, against RING_OFF_MIN = 150
MCRingPulseGap == 2
MCRingCountMin == 2
MCEscapeTimeout == 2
\* the detector reports too few or enough cycles of ringing
MCRingCycles == {MCRingCountMin - 1, MCRingCountMin}
NoRings == {"none"}
\* MDMSTAT_RING from the device, or the -r ring detector: one run for both
BothRings == {"device", "detector"}
NoWrites == {}
\* one '+', one other byte
OneByteWrites == {<<"+">>, <<"x">>}
AutoAnswer == 2
NoAutoAnswer == 0

\* bound: the clock, in ticks; device rings come as pulses every
\* RingPulseGap ticks, which multiplies the interleavings with the writes, so
\* they get a shorter clock: the first good ring comes at RING_OFF_MIN (a
\* pulse before it is within RING_OFF_MIN of ring_last = 0), so its ring
\* check falls due at RING_OFF_MIN + RING_ON_MAX + 1 = 8
CONSTANTS MaxTime, MaxDeviceTime
TimeBound == now <= IF env.src = "device" THEN MaxDeviceTime ELSE MaxTime
=============================================================================
