SPECIFICATION FairSpec
CONSTANT N = 5
INVARIANTS NoLostWakeup HungryIsCovered
PROPERTIES RefinesTable SomebodyEats
