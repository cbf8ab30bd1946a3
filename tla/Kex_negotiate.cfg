SPECIFICATION FairSpec
CONSTANTS
  Offers <- MCOffers
  MaxFaults = 2
INVARIANTS
  TypeOK
  ChoiceIsClientsFirst
  SameChoice
PROPERTIES
  Finishes
