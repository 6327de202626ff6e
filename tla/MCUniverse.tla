----------------------------- MODULE MCUniverse -----------------------------
EXTENDS UniversePipeline

A == <<1, 1>>
B == <<2, 1>>
C == <<1, 2>>   \* the symbol of A, of another type

MCListings == {A, B, C}
MCWeekOf   == <<1, 1, 2, 2>>
MCMonthOf  == <<1, 2, 2, 2>>

\* A comes and goes, B is there at the start or at the end, C on the second day.
MCHistories ==
  {(A :> <<a, b, c, 1>>) @@ (B :> <<e, 2, f, 0>>) @@ (C :> <<0, g, g, 0>>) :
     a \in 0..2, b \in 0..2, c \in {0, 2}, e \in 0..2, f \in 0..1, g \in {0, 2}}

Daily(type, back) == [id |-> "source.daily_bars", type |-> type, lookback |-> back]
Master            == [id |-> "source.instrument_master"]
Listed(list)      == [id |-> "source.symbols", symbols |-> list, type |-> 1]
Screened          == [id |-> "source.rows", rows |-> <<Row(2, 1, 2, 1, {"b"}), Row(1, 0, 0, Missing, {})>>]
LatestRow         == [id |-> "transform.latest_per_symbol"]
Metric(id, n)     == [id |-> "transform.window_metrics", metric |-> id, field |-> "val", window |-> n]
Sma(n)            == [id |-> "transform.indicator", field |-> "val", window |-> n]
Unique(by)        == [id |-> "transform.distinct", by |-> by]
Tagged            == [id |-> "transform.tag", tags |-> {"t"}]
Where(f, op, v)   == [id |-> "filter.field", field |-> f, op |-> op, value |-> v]
Expr(mode, conds) == [id |-> "filter.expr", mode |-> mode, conds |-> conds]
Is(f, op, v)      == [field |-> f, op |-> op, value |-> v]
AtLeast(id, n)    == [id |-> id, min |-> n]
OnlyTags(i, e)    == [id |-> "filter.tags", include |-> i, exclude |-> e]
Names(id, set)    == [id |-> id, symbols |-> set]
ByField(f, o, n)  == [id |-> "rank.by_field", field |-> f, order |-> o, limit |-> n]
Scored(ms, n)     == [id |-> "rank.score", metrics |-> ms, limit |-> n]
By(f, w, d)       == [field |-> f, weight |-> w, direction |-> d]
Share(t, b)       == [id |-> "rank.percentile", field |-> "val", top |-> t, bottom |-> b]
PerGroup(n)       == [id |-> "rank.group_top_n", group |-> "type", field |-> "val", order |-> "desc", n |-> n]
Robin(n)          == [id |-> "rank.round_robin", group |-> "type", limit |-> n]
Limit(id, n)      == [id |-> id, count |-> n, fail |-> n = 2, group |-> "type"]
Combine(id, subs) == [id |-> "combine." \o id, pipelines |-> subs]
Asserted(a, b)    == [id |-> "debug.assert_count", min |-> a, max |-> b]

Pipelines ==
  {<<Daily(0, 0), LatestRow, Tagged, OnlyTags({"liquid", "t"}, {"b"})>>,
   <<Daily(0, 2), Metric("average", 2), LatestRow, Where("met", "gte", 2), ByField("met", "desc", 2)>>,
   <<Daily(0, 3), Metric("return", 2), LatestRow, Expr("any", <<Is("met", "gt", 1), Is("val", "eq", 2)>>)>>,
   <<Daily(1, 3), Metric("max_drawdown", 3), LatestRow, Expr("not", <<Is("met", "lt", 2)>>)>>,
   <<Daily(0, 2), Sma(2), LatestRow, Where("met", "between", <<2, 3>>), ByField("met", "asc", 1)>>,
   <<Daily(0, 2), Unique("symbol"), Expr("all", <<Is("val", "lte", 2)>>), AtLeast("filter.liquidity", 1)>>,
   <<Master, AtLeast("filter.listing_age", 1)>>,
   <<Master, AtLeast("filter.has_daily_bars", 2), AtLeast("filter.listing_age", 1)>>,
   <<Master, Limit("limit.count", 1)>>,
   <<Daily(0, 3), Sma(2), LatestRow, Scored(<<By("val", 2, "desc"), By("met", 1, "asc")>>, 2)>>,
   <<Daily(0, 3), LatestRow, Scored(<<By("day", 1, "asc")>>, 2)>>,
   <<Daily(0, 3), Scored(<<By("val", 1, "asc")>>, 3)>>,
   <<Daily(0, 3), Sma(2), LatestRow,
     [id |-> "rank.weighted", order |-> "asc", limit |-> 2,
      fields |-> <<[field |-> "val", weight |-> 2], [field |-> "met", weight |-> 1]>>],
     Share(<<1, 2>>, <<-1, 2>>)>>,
   <<Daily(0, 3), LatestRow, Share(<<0, 1>>, <<1, 3>>), Robin(2)>>,
   <<Daily(0, 3), PerGroup(1), Robin(3), Limit("limit.per_group", 1)>>,
   <<Listed(<<2, 1>>), Names("filter.exclude_symbols", {2}), Limit("limit.min_count", 1)>>,
   <<Daily(0, 3), LatestRow, Limit("limit.max_count", 2), Names("filter.include_symbols", {1})>>,
   <<Combine("union", <<<<Daily(1, 3), LatestRow>>, <<Screened>>>>), Limit("limit.count", 3)>>,
   <<Combine("difference", <<<<Daily(0, 3), LatestRow>>, <<Listed(<<2>>)>>, <<Daily(2, 3)>>>>)>>,
   <<Combine("intersect", <<<<Daily(0, 3), LatestRow>>, <<Daily(1, 2), LatestRow, ByField("val", "desc", 1)>>>>)>>,
   <<Combine("intersect", <<<<Master, Limit("limit.count", 2)>>, <<Daily(0, 3)>>>>)>>,
   <<Daily(0, 3), Listed(<<2, 1, 2>>), Asserted(1, 3), [id |-> "debug.sample", count |-> 2]>>,
   <<Daily(0, 3), Asserted(2, 3)>>,
   <<LatestRow>>, <<Daily(0, 3), ByField("val", "up", 1)>>, <<Combine("union", <<<<Tagged>>>>)>>,
   <<Combine("concat", <<<<Listed(<<1>>)>>, <<Daily(1, 1)>>>>), [id |-> "filter.security_type", type |-> 1]>>}

Plan(pipeline, schedule, dates) ==
  [pipeline |-> pipeline, schedule |-> schedule, dates |-> dates,
   from |-> 2, window |-> 2, to |-> 4, fallback |-> 0]

\* Screens with an as_of, a from, a to, a from after the to, and no date at all.
Screens(pipeline) ==
  {ScreenPlan(pipeline, 1, [asOf |-> d[1], from |-> d[2], to |-> d[3]]) :
     d \in {<<4, 0, 0>>, <<4, 3, 0>>, <<0, 2, 4>>, <<3, 4, 3>>, <<0, 1, 0>>}}

Short == <<Daily(0, 0), LatestRow>>

MCPlans ==
  {Plan(p, "weekly", <<>>) : p \in Pipelines}
  \cup {Plan(Short, "monthly", <<>>), Plan(Short, "daily", <<>>), Plan(Short, "once", <<>>),
        Plan(Short, "custom_calendar", <<3, 2, 1>>), Plan(Short, "custom_calendar", <<2, 4>>),
        Plan(Short, "custom_calendar", <<1>>)}
  \cup Screens(Short)

\* The sub-pipelines of the documentation, over rows that may repeat.
IntersectPlans ==
  {Plan(<<Combine("intersect", <<<<Daily(0, 3)>>, <<Daily(2, 3)>>>>)>>, "weekly", <<>>)}
=============================================================================
