SPECIFICATION FairSpec
CONSTANT MaxPosted = 2
INVARIANTS OneThingPending BootIsRight SettingsSurvive
 
