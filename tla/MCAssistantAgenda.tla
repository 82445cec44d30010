------------------------- MODULE MCAssistantAgenda -------------------------
EXTENDS AssistantAgenda
TwoSchedules == <<{1, 2}, {2}>>
OneSchedule == <<{1}>>
=============================================================================
