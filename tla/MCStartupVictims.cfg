\* Three workers that keep stealing; each has two possible victims.
SPECIFICATION StealSpec
CONSTANTS
  N = 3
  R = 1
  Seeds <- OddSeed
PROPERTY RandomVictim
