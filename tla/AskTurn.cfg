SPECIFICATION Spec
CONSTANTS
    Goals = {g1, g2, g3}
    Sole = g1
INVARIANTS FreeSqlUnderContract DeniedIsRaised CardsStand OneFailureIsNamed
PROPERTIES CardSurvivesSecondTry DocumentQuestionGetsIt
CHECK_DEADLOCK FALSE
